---- MODULE Spec2Model ----
(***************************************************************************)
(* Voice gateway (voice-gateway/src/server.ts and its tools): the SDP      *)
(* signaling relay, the media-stream sessions kept in activeAgents, and    *)
(* the three tool handlers given to each RealtimeAgent.                    *)
(***************************************************************************)
EXTENDS Integers, Sequences, FiniteSets, TLC

(* ------------------------------ bounds -------------------------------- *)
\* number of POST /realtime/sdp requests a behaviour handles
MaxSdpReq == 2
\* number of HTTP upgrade requests (media-stream connections) a behaviour sees
MaxConn == 2
\* number of tool calls the speech model emits in a behaviour
MaxCalls == 2
\* number of media-stream frames a connection receives in a behaviour
MaxFrames == 2
\* number of POST /twilio/voice requests a behaviour handles
MaxVoiceReq == 2
\* number of requests validateTwilioRequest is applied to in a behaviour
MaxValidations == 1

(* ---------------------------- JS values -------------------------------- *)
\* A value of req.body?.sdp: undefined (no body, or no sdp field), a string
\* or a number (express.json() delivers any JSON value).
Undefined == [t |-> "undefined", s |-> "", n |-> 0]
Str(x) == [t |-> "string", s |-> x, n |-> 0]
Num(k) == [t |-> "number", s |-> "", n |-> k]

\* JavaScript truthiness, as used by the || of server.ts:49
Truthy(v) ==
  CASE v.t = "string" -> v.s # ""
    [] v.t = "number" -> v.n # 0
    [] OTHER -> FALSE

\* JavaScript String(v)
JsString(v) ==
  CASE v.t = "string" -> v.s
    [] v.t = "number" -> ToString(v.n)
    [] OTHER -> "undefined"

\* JSON.stringify({ error: m })
JsonError(m) == "{\"error\":\"" \o m \o "\"}"

(* ------------------------------ inputs --------------------------------- *)
\* values of the sdp field a caller may post
SdpFieldValues == {Undefined, Str(""), Num(0), Str("v=0 offer"), Num(7)}
\* what the upstream signaling endpoint may answer
UpstreamStatuses == {200, 201, 401, 503}
UpstreamBodies == {"v=0 answer", "upstream says no"}
\* process.env.OPENAI_API_KEY at start-up
ApiKeys == {"", "sk-key", "sk-other"}

\* request.url of an HTTP upgrade request ("" stands for no url)
UpgradeUrls == {"/twilio/stream", "/twilio/stream?call=1", "/twilio/streaming", "/other", ""}

\* process.env.PUBLIC_URL at start-up: unset, empty, or an URL the gateway
\* is reachable at (an origin, an origin whose host has "http" in it, an
\* origin written with a trailing slash)
PublicUrlEnv ==
  { Undefined, Str(""), Str("https://abc.ngrok.app"), Str("http://203.0.113.7:8080"),
    Str("https://http.example.com"), Str("https://abc.ngrok.app/") }
\* the X-Twilio-Signature header of a webhook request (undefined: no header)
SignatureHeaders == {Undefined, Str(""), Str("c2lnbmF0dXJl")}

SdpReqIds == 1..MaxSdpReq
VoiceReqIds == 1..MaxVoiceReq
ValidationIds == 1..MaxValidations

\* process.env.TWILIO_AUTH_TOKEN: unset, empty, or the shared secret
TwilioAuthTokens == {Undefined, Str(""), Str("secret")}
ConnIds == 1..MaxConn
\* the values crypto.randomUUID() can return (as many as there are connections)
UUIDs == 1..MaxConn
\* a tool call's correlation id
CallIds == 1..MaxCalls

VARIABLES
  OPENAI_API_KEY,  \* server.ts:16
  sdpReq,          \* one record per POST /realtime/sdp request
  listening,       \* the HTTP server of server.ts:78 accepts requests
  conn,            \* one record per upgrade request: socket, handler, agent
  activeAgents,    \* server.ts:72: Map from uuid to agent (the connection's id)
  calls,           \* one record per tool call: the handler's invocation
  results,         \* the result values the tool handlers have returned, in order
  console,         \* the lines written with console.log and console.error
  delivered,       \* per connection, the frames its socket handed to the transport layer
  uncaught,        \* number of exceptions that escaped a frame handler
  sent,            \* per connection, the audio the transport layer wrote to its socket
  PUBLIC_URL,      \* server.ts:15
  TWILIO_AUTH_TOKEN, \* server.ts:19
  validations,     \* one record per request given to validateTwilioRequest
  voiceReq         \* one record per POST /twilio/voice request

sdpVars == <<OPENAI_API_KEY, sdpReq>>
wsVars == <<listening, conn, activeAgents>>
toolVars == <<calls, results>>
streamVars == <<console, delivered, uncaught, sent>>
voiceVars == <<PUBLIC_URL, voiceReq, TWILIO_AUTH_TOKEN, validations>>
vars == <<OPENAI_API_KEY, sdpReq, listening, conn, activeAgents, calls, results,
          console, delivered, uncaught, sent, PUBLIC_URL, voiceReq,
          TWILIO_AUTH_TOKEN, validations>>

NoResp == [status |-> 0, body |-> ""]

\* Response.ok of fetch: status in 200..299
Ok(rtResp) == rtResp.status >= 200 /\ rtResp.status <= 299

\* const sdpOffer = String(req.body?.sdp || '')
sdpOffer(v) == JsString(IF Truthy(v) THEN v ELSE Str(""))

\* res.status(s).json({ error: m })
ResJson(s, m) == [status |-> s, ctype |-> "application/json", body |-> JsonError(m)]
\* res.status(s).send(text)
ResSend(s, text) == [status |-> s, ctype |-> "text/html", body |-> text]
\* res.type('application/sdp').send(text): the status stays Express's default
ResSdp(text) == [status |-> 200, ctype |-> "application/sdp", body |-> text]

\* a plausible slip: the offer posted upstream wrapped in JSON, as it arrived
FetchCallJson(offer) ==
  [url |-> "https://api.openai.com/v1/realtime?model=gpt-4o-realtime-preview-2024-12-17",
   authorization |-> "Bearer " \o OPENAI_API_KEY,
   body |-> "{\"sdp\":\"" \o offer \o "\"}"]

\* the fetch of server.ts:53-61
FetchCall(offer) ==
  [url |-> "https://api.openai.com/v1/realtime?model=gpt-4o-realtime-preview-2024-12-17",
   authorization |-> "Bearer " \o OPENAI_API_KEY,
   body |-> offer]

\* a plausible slip: the error answer carries the request that failed, its
\* authorization header included
SdpCatchLeaks == ResJson(500, "SDP proxy error: Bearer " \o OPENAI_API_KEY)

\* the catch block of server.ts:65-68
SdpCatch == ResJson(500, "SDP proxy error")

\* a plausible slip: an upstream failure reported in the relay's own words
SdpRelayOwnError(rtResp) ==
  IF ~Ok(rtResp) THEN ResJson(502, "Upstream error")
  ELSE ResSdp(rtResp.body)

\* server.ts:63-64, after sdpAnswer = await rtResp.text()
SdpRelay(rtResp) ==
  IF ~Ok(rtResp) THEN ResSend(rtResp.status, rtResp.body)
  ELSE ResSdp(rtResp.body)

\* a plausible slip: the two early returns in the other order
SdpEarlyReturnKeyFirst(offer) ==
  IF OPENAI_API_KEY = "" THEN <<ResJson(500, "Server missing OPENAI_API_KEY")>>
  ELSE IF offer = "" THEN <<ResJson(400, "Missing SDP")>>
  ELSE <<>>

\* a plausible slip: no check of the credential before the fetch
SdpEarlyReturnNoKeyCheck(offer) ==
  IF offer = "" THEN <<ResJson(400, "Missing SDP")>>
  ELSE <<>>

\* the early returns of server.ts:50-51: the response sent, or <<>> to go on
SdpEarlyReturn(offer) ==
  IF offer = "" THEN <<ResJson(400, "Missing SDP")>>
  ELSE IF OPENAI_API_KEY = "" THEN <<ResJson(500, "Server missing OPENAI_API_KEY")>>
  ELSE <<>>

NewSdpReq ==
  [pc |-> "new", sdp |-> Undefined, fetches |-> <<>>, threw |-> FALSE,
   rtResp |-> NoResp, responses |-> <<>>]

InitSdp == sdpReq = [r \in SdpReqIds |-> NewSdpReq]

\* a plausible slip: the relay keeps an entry per signaling request in the
\* session registry
SdpPostRegisters(r, v) ==
  /\ sdpReq[r].pc = "new"
  /\ LET offer == sdpOffer(v) IN
       sdpReq' = [sdpReq EXCEPT ![r] =
         IF SdpEarlyReturn(offer) # <<>>
           THEN [@ EXCEPT !.pc = "done", !.sdp = v,
                          !.responses = @ \o SdpEarlyReturn(offer)]
         ELSE [@ EXCEPT !.pc = "awaitFetch", !.sdp = v,
                        !.fetches = Append(@, FetchCall(offer))]]
  /\ activeAgents' = [x \in (DOMAIN activeAgents) \cup {0} |->
                        IF x = 0 THEN 0 ELSE activeAgents[x]]
  /\ UNCHANGED <<OPENAI_API_KEY, listening, conn, toolVars, streamVars, voiceVars>>

\* app.post('/realtime/sdp'): the handler up to its first await
SdpPost(r, v) ==
  /\ sdpReq[r].pc = "new"
  /\ LET offer == sdpOffer(v) IN
       sdpReq' = [sdpReq EXCEPT ![r] =
         IF SdpEarlyReturn(offer) # <<>>
           THEN [@ EXCEPT !.pc = "done", !.sdp = v,
                          !.responses = @ \o SdpEarlyReturn(offer)]
         ELSE [@ EXCEPT !.pc = "awaitFetch", !.sdp = v,
                        !.fetches = Append(@, FetchCall(offer))]]
  /\ UNCHANGED <<OPENAI_API_KEY, wsVars, toolVars, streamVars, voiceVars>>

\* await fetch(...) resolves with the upstream's response
SdpFetchResolves(r, status, body) ==
  /\ sdpReq[r].pc = "awaitFetch"
  /\ sdpReq' = [sdpReq EXCEPT ![r] =
       [@ EXCEPT !.pc = "awaitText", !.rtResp = [status |-> status, body |-> body]]]
  /\ UNCHANGED <<OPENAI_API_KEY, wsVars, toolVars, streamVars, voiceVars>>

\* a plausible slip: a fetch that fails is tried once more before the catch
\* block answers
SdpFetchRejectsRetries(r) ==
  /\ sdpReq[r].pc = "awaitFetch"
  /\ sdpReq' = [sdpReq EXCEPT ![r] =
       IF Len(@.fetches) < 2
         THEN [@ EXCEPT !.fetches = Append(@, @[1])]
         ELSE [@ EXCEPT !.pc = "done", !.threw = TRUE, !.responses = Append(@, SdpCatch)]]
  /\ UNCHANGED <<OPENAI_API_KEY, wsVars, toolVars, streamVars, voiceVars>>

\* await fetch(...) rejects (no upstream response): the catch block answers
SdpFetchRejects(r) ==
  /\ sdpReq[r].pc = "awaitFetch"
  /\ sdpReq' = [sdpReq EXCEPT ![r] =
       [@ EXCEPT !.pc = "done", !.threw = TRUE, !.responses = Append(@, SdpCatch)]]
  /\ UNCHANGED <<OPENAI_API_KEY, wsVars, toolVars, streamVars, voiceVars>>

\* a plausible slip: line 63 without its return, so that an upstream
\* failure is sent on and the success answer is sent after it
SdpTextResolvesNoReturn(r) ==
  /\ sdpReq[r].pc = "awaitText"
  /\ sdpReq' = [sdpReq EXCEPT ![r] =
       [@ EXCEPT !.pc = "done",
                 !.responses =
                   IF Ok(sdpReq[r].rtResp) THEN Append(@, ResSdp(sdpReq[r].rtResp.body))
                   ELSE @ \o <<ResSend(sdpReq[r].rtResp.status, sdpReq[r].rtResp.body),
                               ResSdp(sdpReq[r].rtResp.body)>>]]
  /\ UNCHANGED <<OPENAI_API_KEY, wsVars, toolVars, streamVars, voiceVars>>

\* await rtResp.text() resolves: server.ts:62-64
SdpTextResolves(r) ==
  /\ sdpReq[r].pc = "awaitText"
  /\ sdpReq' = [sdpReq EXCEPT ![r] =
       [@ EXCEPT !.pc = "done", !.responses = Append(@, SdpRelay(sdpReq[r].rtResp))]]
  /\ UNCHANGED <<OPENAI_API_KEY, wsVars, toolVars, streamVars, voiceVars>>

\* a plausible slip: when the body cannot be read the upstream's status is
\* sent on with the text of the exception
SdpTextRejectsTellsWhy(r) ==
  /\ sdpReq[r].pc = "awaitText"
  /\ sdpReq' = [sdpReq EXCEPT ![r] =
       [@ EXCEPT !.pc = "done", !.threw = TRUE,
                 !.responses = Append(@, ResSend(sdpReq[r].rtResp.status,
                                                 "TypeError: terminated"))]]
  /\ UNCHANGED <<OPENAI_API_KEY, wsVars, toolVars, streamVars, voiceVars>>

\* await rtResp.text() rejects (the body cannot be read): the catch block answers
SdpTextRejects(r) ==
  /\ sdpReq[r].pc = "awaitText"
  /\ sdpReq' = [sdpReq EXCEPT ![r] =
       [@ EXCEPT !.pc = "done", !.threw = TRUE, !.responses = Append(@, SdpCatch)]]
  /\ UNCHANGED <<OPENAI_API_KEY, wsVars, toolVars, streamVars, voiceVars>>

(* ------------------------ media-stream sessions ------------------------ *)
\* String.prototype.startsWith
StartsWith(str, prefix) ==
  Len(str) >= Len(prefix) /\ SubSeq(str, 1, Len(prefix)) = prefix

\* server.ts:84: !url || !url.startsWith('/twilio/stream')
UpgradeRejected(url) == url = "" \/ ~StartsWith(url, "/twilio/stream")

\* Map.prototype.set
MapSet(m, k, v) == [x \in (DOMAIN m) \cup {k} |-> IF x = k THEN v ELSE m[x]]

\* a plausible slip: the key is the same for every connection (the stream
\* sid the comment of server.ts:71 speaks of is not known yet at this point)
randomUUIDSame == {u \in UUIDs : u = 1}

\* crypto.randomUUID(): a version 4 UUID, taken as never repeating. The
\* values are opaque and only compared with each other, so the k-th value
\* drawn is named k.
randomUUID == {u \in UUIDs : u = Cardinality(DOMAIN activeAgents) + 1}

\* a plausible slip: close() starts a closing handshake whatever the state
\* of the socket, also on one that is closed already
WsCloseAgain(state) == "closing"

\* WebSocket.close() of the ws package: starts the closing handshake of an
\* open socket, does nothing on a closing or closed one
WsClose(state) == IF state = "open" THEN "closing" ELSE state

\* a plausible slip: one transport layer for the whole server, built around
\* the first socket
TwilioRealtimeTransportLayerShared(ws) == [websocket |-> 1]

\* new TwilioRealtimeTransportLayer({ websocket: ws }) (server.ts:95-97):
\* sockets are named by their connection
TwilioRealtimeTransportLayer(ws) == [websocket |-> ws]

\* new RealtimeAgent({ ..., transportLayer: transport, ... }) (server.ts:113-151)
RealtimeAgent(transport) == [transportLayer |-> transport]

\* no agent built yet
NoAgent == RealtimeAgent(TwilioRealtimeTransportLayer(0))

\* ws:    "none" | "destroyed" | "open" | "closing" | "closed"
\* pc:    where the connection handler of server.ts:93-160 stands
\* model: the agent's connection to the speech-model endpoint
\* agent: the agent built for the connection, with the transport it talks through
NewConn ==
  [ws |-> "none", pc |-> "none", model |-> "none", connects |-> 0, agent |-> NoAgent]

InitWs ==
  /\ listening = TRUE
  /\ conn = [c \in ConnIds |-> NewConn]
  /\ activeAgents = <<>>

\* connections are numbered in their order of arrival
NextConn(c) == conn[c].ws = "none" /\ \A d \in ConnIds : d < c => conn[d].ws # "none"

\* server.on('upgrade') with an url that is not the stream path: socket.destroy()
UpgradeReject(c, url) ==
  /\ listening /\ NextConn(c)
  /\ UpgradeRejected(url)
  /\ conn' = [conn EXCEPT ![c] = [@ EXCEPT !.ws = "destroyed"]]
  /\ UNCHANGED <<listening, activeAgents, sdpVars, toolVars, streamVars, voiceVars>>

\* server.on('upgrade') on the stream path, then wss.on('connection') up to
\* its await: the transport and the agent are built, the agent is put in
\* activeAgents under a new uuid, agent.connect() is started
UpgradeAccept(c, url) ==
  /\ listening /\ NextConn(c)
  /\ ~UpgradeRejected(url)
  /\ \E u \in randomUUID :
       activeAgents' = MapSet(activeAgents, u, c)
  /\ conn' = [conn EXCEPT ![c] =
       [@ EXCEPT !.ws = "open", !.pc = "awaitConnect",
                 !.model = "connecting", !.connects = @ + 1,
                 !.agent = RealtimeAgent(TwilioRealtimeTransportLayer(c))]]
  /\ UNCHANGED <<listening, sdpVars, toolVars, streamVars, voiceVars>>

\* await agent.connect() resolves: the handler ends (server.ts:155)
ConnectResolves(c) ==
  /\ conn[c].pc = "awaitConnect"
  /\ conn' = [conn EXCEPT ![c] = [@ EXCEPT !.pc = "done", !.model = "connected"]]
  /\ UNCHANGED <<listening, activeAgents, sdpVars, toolVars, streamVars, voiceVars>>

\* a plausible slip: a failed connect closes every socket of the server
ConnectRejectsClosesAll(c) ==
  /\ conn[c].pc = "awaitConnect"
  /\ conn' = [d \in ConnIds |->
       IF d = c THEN [conn[d] EXCEPT !.pc = "done", !.model = "failed", !.ws = WsClose(@)]
       ELSE [conn[d] EXCEPT !.ws = WsClose(@)]]
  /\ UNCHANGED <<listening, activeAgents, sdpVars, toolVars, streamVars, voiceVars>>

\* await agent.connect() rejects: the catch block logs and calls ws.close()
\* (server.ts:156-159)
ConnectRejects(c) ==
  /\ conn[c].pc = "awaitConnect"
  /\ conn' = [conn EXCEPT ![c] =
       [@ EXCEPT !.pc = "done", !.model = "failed", !.ws = WsClose(@)]]
  /\ UNCHANGED <<listening, activeAgents, sdpVars, toolVars, streamVars, voiceVars>>

\* a plausible slip: a close handler that takes the session out of the
\* registry (activeAgents.delete)
WsClosedDeregisters(c) ==
  /\ conn[c].ws \in {"open", "closing"}
  /\ conn' = [conn EXCEPT ![c] = [@ EXCEPT !.ws = "closed"]]
  /\ activeAgents' = [u \in {x \in DOMAIN activeAgents : activeAgents[x] # c} |-> activeAgents[u]]
  /\ UNCHANGED <<listening, sdpVars, toolVars, streamVars, voiceVars>>

\* the peer closes the media-stream WebSocket, or answers the closing
\* handshake: the socket is closed. server.ts registers no handler for it.
WsClosed(c) ==
  /\ conn[c].ws \in {"open", "closing"}
  /\ conn' = [conn EXCEPT ![c] = [@ EXCEPT !.ws = "closed"]]
  /\ UNCHANGED <<listening, activeAgents, sdpVars, toolVars, streamVars, voiceVars>>

\* a plausible slip: a handler of the drop connects the agent again
ModelDropReconnects(c) ==
  /\ conn[c].model = "connected"
  /\ conn' = [conn EXCEPT ![c] =
       [@ EXCEPT !.pc = "awaitConnect", !.model = "connecting", !.connects = @ + 1]]
  /\ UNCHANGED <<listening, activeAgents, sdpVars, toolVars, streamVars, voiceVars>>

\* the speech-model endpoint drops an established connection in mid-call.
\* server.ts registers no handler for it.
ModelDrop(c) ==
  /\ conn[c].model = "connected"
  /\ conn' = [conn EXCEPT ![c] = [@ EXCEPT !.model = "failed"]]
  /\ UNCHANGED <<listening, activeAgents, sdpVars, toolVars, streamVars, voiceVars>>

(* ------------------------------ strings -------------------------------- *)
LowerCase == "abcdefghijklmnopqrstuvwxyz"
UpperCase == "ABCDEFGHIJKLMNOPQRSTUVWXYZ"

\* one character of String.prototype.toUpperCase (ASCII)
UpperChar(ch) ==
  IF \E i \in 1..Len(LowerCase) : SubSeq(LowerCase, i, i) = ch
    THEN LET i == CHOOSE k \in 1..Len(LowerCase) : SubSeq(LowerCase, k, k) = ch
         IN SubSeq(UpperCase, i, i)
    ELSE ch

RECURSIVE toUpperCase(_)
toUpperCase(str) ==
  IF str = "" THEN ""
  ELSE UpperChar(SubSeq(str, 1, 1)) \o toUpperCase(SubSeq(str, 2, Len(str)))

\* Array.prototype.join
RECURSIVE join(_, _)
join(items, sep) ==
  IF items = <<>> THEN ""
  ELSE IF Len(items) = 1 THEN items[1]
  ELSE items[1] \o sep \o join(Tail(items), sep)

\* String.prototype.includes
Contains(str, sub) ==
  \E i \in 1..(Len(str) + 1) :
    i + Len(sub) - 1 <= Len(str) /\ SubSeq(str, i, i + Len(sub) - 1) = sub

(* --------------------------- script descriptors ------------------------ *)
\* an optional array (questions?, actions?, interactive_elements?) and an
\* optional string (output_format?) of scriptTool.ts:5-16
NoList == [present |-> FALSE, items |-> <<>>]
List(xs) == [present |-> TRUE, items |-> xs]
NoStr == [present |-> FALSE, s |-> ""]
SomeStr(x) == [present |-> TRUE, s |-> x]

BlogWriter ==
  [name |-> "blog_writer", description |-> "Write a blog post",
   stages |-> List(<<
     [name |-> "intro", prompt |-> "Find a topic",
      questions |-> List(<<"What topic?", "Who reads it?">>), actions |-> NoList],
     [name |-> "draft", prompt |-> "Write it",
      questions |-> List(<<>>), actions |-> List(<<"save">>)]>>),
   output_format |-> SomeStr("markdown"), interactive_elements |-> NoList]

ImprovGame ==
  [name |-> "improv_game", description |-> "Yes, and",
   stages |-> List(<<
     [name |-> "scene", prompt |-> "Set a scene",
      questions |-> NoList, actions |-> NoList]>>),
   output_format |-> NoStr, interactive_elements |-> List(<<"yes-and", "callbacks">>)]

\* the descriptor of improv_game after an edit of its stage
ImprovGameRevised ==
  [name |-> "improv_game", description |-> "Yes, and",
   stages |-> List(<<
     [name |-> "scene", prompt |-> "Set a new scene",
      questions |-> NoList, actions |-> NoList]>>),
   output_format |-> NoStr, interactive_elements |-> List(<<"yes-and", "callbacks">>)]

\* a JSON body that is no descriptor: it has no stages
NotADescriptor ==
  [name |-> "", description |-> "", stages |-> NoList,
   output_format |-> NoStr, interactive_elements |-> NoList]

\* a plausible slip: the stages numbered by the forEach index, from 0
StageLinesFromZero(stage, index) ==
  ToString(index) \o ". **" \o toUpperCase(stage.name) \o "**: " \o stage.prompt \o "\n"
  \o (IF stage.questions.present /\ Len(stage.questions.items) > 0
        THEN "   - Key questions: " \o join(stage.questions.items, ", ") \o "\n" ELSE "")
  \o (IF stage.actions.present /\ Len(stage.actions.items) > 0
        THEN "   - Available actions: " \o join(stage.actions.items, ", ") \o "\n" ELSE "")

\* the forEach callback of scriptTool.ts:42-50 (index counted from 0)
StageLines(stage, index) ==
  ToString(index + 1) \o ". **" \o toUpperCase(stage.name) \o "**: " \o stage.prompt \o "\n"
  \o (IF stage.questions.present /\ Len(stage.questions.items) > 0
        THEN "   - Key questions: " \o join(stage.questions.items, ", ") \o "\n" ELSE "")
  \o (IF stage.actions.present /\ Len(stage.actions.items) > 0
        THEN "   - Available actions: " \o join(stage.actions.items, ", ") \o "\n" ELSE "")

RECURSIVE StagesText(_, _)
StagesText(stages, from) ==
  IF from > Len(stages) THEN ""
  ELSE StageLines(stages[from], from - 1) \o StagesText(stages, from + 1)

\* the fixed closing lines of scriptTool.ts:60-69 (emoji left out)
ExecutionGuidelines ==
  "\n### SCRIPT EXECUTION GUIDELINES:\n"
  \o "- **YOU ARE NOW FOLLOWING THIS SCRIPT**: Use this as your primary guidance for the conversation\n"
  \o "- **STAGE-BY-STAGE APPROACH**: Guide the user through each stage naturally and conversationally\n"
  \o "- **DON'T RUSH**: Let the user explore and engage with each stage fully\n"
  \o "- **ADAPT WHEN NEEDED**: Use the script as a framework, but adapt to the user's needs and interests\n"
  \o "- **CAPTURE CONTENT**: Save important content in markdown files as you progress\n"
  \o "- **STAY ENCOURAGING**: Be supportive and positive throughout the process\n"
  \o "- **CURRENT STAGE**: Start with the first stage and progress naturally\n"
  \o "\n### IMPORTANT: This script is now your primary behavior guide. Follow its structure and prompts to help the user achieve their goals.\n"

\* generateScriptInstructions of scriptTool.ts:38-72, for a script with stages
generateScriptInstructions(script) ==
  "\n\n## ACTIVE SCRIPT: " \o script.name \o "\n\n" \o script.description \o "\n\n"
  \o "### SCRIPT STRUCTURE:\n"
  \o StagesText(script.stages.items, 1)
  \o (IF script.output_format.present /\ script.output_format.s # ""
        THEN "\n### OUTPUT FORMAT: " \o script.output_format.s \o "\n" ELSE "")
  \o (IF script.interactive_elements.present /\ Len(script.interactive_elements.items) > 0
        THEN "\n### INTERACTIVE ELEMENTS: "
             \o join(script.interactive_elements.items, ", ") \o "\n" ELSE "")
  \o ExecutionGuidelines

(* ------------------------ the external accessors ----------------------- *)
\* an HTTP exchange with the backend at localhost:8000, as fetch sees it:
\* it rejects (kind "network"), or resolves with a status and a body that
\* parses as JSON (json, with value, or detail for an error body) or not
NoValue == [none |-> TRUE]
NetworkError == [kind |-> "network", status |-> 0, json |-> FALSE, detail |-> "", value |-> NoValue]
HttpError(status, json, detail) ==
  [kind |-> "response", status |-> status, json |-> json, detail |-> detail, value |-> NoValue]
HttpOk(value) ==
  [kind |-> "response", status |-> 200, json |-> TRUE, detail |-> "", value |-> value]
HttpOkUnparsable ==
  [kind |-> "response", status |-> 200, json |-> FALSE, detail |-> "", value |-> NoValue]

\* failures of the exchange itself, whatever was asked
ExchangeFailures == {NetworkError, HttpError(500, FALSE, ""), HttpOkUnparsable}

\* FileOps accessor: the documents of the workspace and the operations it knows
Workspace == {"notes.md"}
FileOperations == {"create", "read", "write", "append", "insert", "replace", "save_as"}
FileOpsAnswer(args) ==
  IF args.operation \notin FileOperations THEN HttpError(400, TRUE, "Unknown operation")
  ELSE IF args.operation = "read" /\ args.filename \notin Workspace
    THEN HttpError(404, TRUE, "File not found")
  ELSE HttpOk([success |-> TRUE, filepath |-> args.filename])

\* ScriptCatalog accessor: lookup by name, and the list of the known names.
\* The catalog may be edited between two lookups: a lookup of improv_game is
\* answered with its descriptor before or after the edit.
ScriptCatalog == {BlogWriter, ImprovGame, ImprovGameRevised}
KnownScripts == {d.name : d \in ScriptCatalog}
ScriptLookupAnswers(name) ==
  IF name \in KnownScripts THEN {HttpOk(d) : d \in {x \in ScriptCatalog : x.name = name}}
  ELSE {HttpError(404, TRUE, "Script not found"), HttpError(404, FALSE, "")}
ScriptListAnswer == HttpOk([items |-> <<"blog_writer", "improv_game">>])

(* ---------------------------- tool handlers ---------------------------- *)
ToolNames == {"file_operation", "get_script_info", "list_available_scripts"}
FileArgs ==
  {[operation |-> "read", filename |-> "missing.md"],
   [operation |-> "append", filename |-> "notes.md"],
   [operation |-> "delete", filename |-> "notes.md"]}
ScriptArgs == {[script_name |-> "blog_writer"], [script_name |-> "improv_game"],
               [script_name |-> "nope"]}
NoArgs == [none |-> TRUE]
ToolArgs(tool) ==
  CASE tool = "file_operation" -> FileArgs
    [] tool = "get_script_info" -> ScriptArgs
    [] OTHER -> {NoArgs}

\* what the accessor may answer to the handler's request
AccessorOutcomes(tool, args) ==
  CASE tool = "file_operation" -> {FileOpsAnswer(args)} \cup ExchangeFailures
    [] tool = "get_script_info" ->
         ScriptLookupAnswers(args.script_name) \cup ExchangeFailures \cup {HttpOk(NotADescriptor)}
    [] OTHER -> {ScriptListAnswer} \cup ExchangeFailures

\* how an async function ends: it returns a value or throws an Error
Return(value) == [kind |-> "return", message |-> "", value |-> value]
Throw(message) == [kind |-> "throw", message |-> message, value |-> NoValue]

\* JSON.stringify(err), err = await res.json().catch(() => ({}))
ErrJson(out) == IF out.json THEN "{\"detail\":\"" \o out.detail \o "\"}" ELSE "{}"

\* what fetch and res.json() throw
FetchFailed == "fetch failed"
JsonSyntaxError == "Unexpected token < in JSON at position 0"
ForEachTypeError == "Cannot read properties of undefined (reading 'forEach')"

\* fileTool.ts:9-20
fileOperationTool(args, out) ==
  IF out.kind = "network" THEN Throw(FetchFailed)
  ELSE IF ~Ok(out)
    THEN Throw("file_operation failed: " \o ToString(out.status) \o " " \o ErrJson(out))
  ELSE IF ~out.json THEN Throw(JsonSyntaxError)
  ELSE Return(out.value)

\* a plausible slip: the error message without the requested name
scriptLoadToolNoName(args, out) ==
  IF out.kind = "network" THEN Throw(FetchFailed)
  ELSE IF ~Ok(out)
    THEN Throw("Failed to load script: " \o ToString(out.status) \o " " \o ErrJson(out))
  ELSE IF ~out.json THEN Throw(JsonSyntaxError)
  ELSE IF ~out.value.stages.present THEN Throw(ForEachTypeError)
  ELSE Return([script |-> out.value, instructions |-> generateScriptInstructions(out.value)])

\* a plausible slip: the script and its instructions are kept by name after
\* the first successful load and served from there afterwards
scriptLoadToolCached(args, out) ==
  LET earlier == {i \in CallIds :
                    /\ calls[i].tool = "get_script_info" /\ calls[i].state = "returned"
                    /\ calls[i].args = args
                    /\ calls[i].output.value.success}
  IN
  IF earlier # {}
    THEN LET i == CHOOSE x \in earlier : TRUE IN
         Return([script |-> calls[i].output.value.script,
                 instructions |-> calls[i].output.value.guidance])
  ELSE IF out.kind = "network" THEN Throw(FetchFailed)
  ELSE IF ~Ok(out)
    THEN Throw("Failed to load script '" \o args.script_name \o "': "
               \o ToString(out.status) \o " " \o ErrJson(out))
  ELSE IF ~out.json THEN Throw(JsonSyntaxError)
  ELSE IF ~out.value.stages.present THEN Throw(ForEachTypeError)
  ELSE Return([script |-> out.value, instructions |-> generateScriptInstructions(out.value)])

\* a plausible slip: the stage names are put in capitals in the descriptor
\* itself (stage.name = stage.name.toUpperCase()) while the guidance is built
scriptLoadToolInPlace(args, out) ==
  IF out.kind = "network" THEN Throw(FetchFailed)
  ELSE IF ~Ok(out)
    THEN Throw("Failed to load script '" \o args.script_name \o "': "
               \o ToString(out.status) \o " " \o ErrJson(out))
  ELSE IF ~out.json THEN Throw(JsonSyntaxError)
  ELSE IF ~out.value.stages.present THEN Throw(ForEachTypeError)
  ELSE Return([script |->
                 [out.value EXCEPT !.stages.items =
                    [k \in 1..Len(@) |-> [@[k] EXCEPT !.name = toUpperCase(@)]]],
               instructions |-> generateScriptInstructions(out.value)])

\* scriptTool.ts:18-36
scriptLoadTool(args, out) ==
  IF out.kind = "network" THEN Throw(FetchFailed)
  ELSE IF ~Ok(out)
    THEN Throw("Failed to load script '" \o args.script_name \o "': "
               \o ToString(out.status) \o " " \o ErrJson(out))
  ELSE IF ~out.json THEN Throw(JsonSyntaxError)
  ELSE IF ~out.value.stages.present THEN Throw(ForEachTypeError)
  ELSE Return([script |-> out.value, instructions |-> generateScriptInstructions(out.value)])

\* scriptTool.ts:74-86
listAvailableScripts(out) ==
  IF out.kind = "network" THEN Throw(FetchFailed)
  ELSE IF ~Ok(out)
    THEN Throw("Failed to list scripts: " \o ToString(out.status) \o " " \o ErrJson(out))
  ELSE IF ~out.json THEN Throw(JsonSyntaxError)
  ELSE Return(out.value)

\* server.ts:118-120: no try/catch, what fileOperationTool throws is thrown on
file_operation(args, out) == fileOperationTool(args, out)

\* server.ts:121-135
get_script_info(args, out) ==
  LET result == scriptLoadTool(args, out) IN
    IF result.kind = "return"
      THEN Return([success |-> TRUE, script |-> result.value.script,
                   guidance |-> result.value.instructions])
      ELSE Return([success |-> FALSE, error |-> result.message])

\* a plausible slip: the handler without its try/catch, like file_operation
list_available_scriptsNoCatch(args, out) ==
  LET scripts == listAvailableScripts(out) IN
    IF scripts.kind = "return"
      THEN Return([success |-> TRUE, scripts |-> scripts.value])
      ELSE scripts

\* server.ts:136-149
list_available_scripts(args, out) ==
  LET scripts == listAvailableScripts(out) IN
    IF scripts.kind = "return"
      THEN Return([success |-> TRUE, scripts |-> scripts.value])
      ELSE Return([success |-> FALSE, error |-> scripts.message])

\* the tools object of server.ts:117-150
ToolHandler(tool, args, out) ==
  CASE tool = "file_operation" -> file_operation(args, out)
    [] tool = "get_script_info" -> get_script_info(args, out)
    [] OTHER -> list_available_scripts(args, out)

\* the request a handler sends to the accessor with fetch (fileTool.ts:10-14,
\* scriptTool.ts:20-23 and 75-78); the body stands for JSON.stringify(args)
AccessorRequest(tool, args) ==
  CASE tool = "file_operation" ->
         [method |-> "POST", url |-> "http://localhost:8000/tools/file_operation", body |-> args]
    [] tool = "get_script_info" ->
         [method |-> "GET", url |-> "http://localhost:8000/scripts/" \o args.script_name,
          body |-> NoArgs]
    [] OTHER -> [method |-> "GET", url |-> "http://localhost:8000/scripts", body |-> NoArgs]

\* requests: the requests the handler has sent to the accessor
NewCall ==
  [state |-> "none", conn |-> 0, tool |-> "", args |-> NoArgs, requests |-> <<>>,
   out |-> NetworkError, output |-> Throw("")]

InitTools ==
  /\ calls = [id \in CallIds |-> NewCall]
  /\ results = <<>>

\* the model emits a tool call on session c: the agent invokes the handler
\* of that name, which runs up to its await of fetch
ToolCall(c, id, tool, args) ==
  /\ conn[c].model = "connected"
  /\ calls[id].state = "none" /\ \A d \in CallIds : d < id => calls[d].state # "none"
  /\ calls' = [calls EXCEPT ![id] =
       [@ EXCEPT !.state = "pending", !.conn = c, !.tool = tool, !.args = args,
                 !.requests = Append(@, AccessorRequest(tool, args))]]
  /\ UNCHANGED <<results, wsVars, sdpVars, streamVars, voiceVars>>

\* a plausible slip: a handler that fails takes its session down with it
\* (the socket of the session is closed when the handler throws or fails)
ToolCompletesClosesOnFailure(id, out) ==
  /\ calls[id].state = "pending"
  /\ LET output == ToolHandler(calls[id].tool, calls[id].args, out) IN
       /\ calls' = [calls EXCEPT ![id] =
            [@ EXCEPT !.state = IF output.kind = "return" THEN "returned" ELSE "threw",
                      !.out = out, !.output = output]]
       /\ results' = IF output.kind = "return"
                       THEN Append(results, [callId |-> id, value |-> output.value])
                       ELSE results
       /\ conn' = IF output.kind = "return" /\ output.value.success
                    THEN conn
                    ELSE [conn EXCEPT ![calls[id].conn] = [@ EXCEPT !.ws = WsClose(@)]]
  /\ UNCHANGED <<listening, activeAgents, sdpVars, streamVars, voiceVars>>

\* the accessor's answer arrives and the handler of call id runs to its end:
\* it returns a value, the call's result, or it throws
ToolCompletes(id, out) ==
  /\ calls[id].state = "pending"
  /\ LET output == ToolHandler(calls[id].tool, calls[id].args, out) IN
       /\ calls' = [calls EXCEPT ![id] =
            [@ EXCEPT !.state = IF output.kind = "return" THEN "returned" ELSE "threw",
                      !.out = out, !.output = output]]
       /\ results' = IF output.kind = "return"
                       THEN Append(results, [callId |-> id, value |-> output.value])
                       ELSE results
  /\ UNCHANGED <<wsVars, sdpVars, streamVars, voiceVars>>

(* ------------------------ the Twilio voice webhook --------------------- *)
\* Number(process.env.PORT || 8080) with PORT unset
PORT == 8080

\* process.env.PUBLIC_URL || `http://localhost:${PORT}`
PublicUrlOf(env) == IF Truthy(env) THEN JsString(env) ELSE "http://localhost:" \o ToString(PORT)

\* String.prototype.indexOf, counted from 1 (0: not found)
IndexOf(str, sub) ==
  LET at == {i \in 1..(Len(str) - Len(sub) + 1) : SubSeq(str, i, i + Len(sub) - 1) = sub} IN
  IF at = {} THEN 0 ELSE CHOOSE i \in at : \A j \in at : i <= j

\* String.prototype.replace with a string pattern: the first occurrence only
Replace(str, pattern, replacement) ==
  LET i == IndexOf(str, pattern) IN
  IF i = 0 THEN str
  ELSE SubSeq(str, 1, i - 1) \o replacement \o SubSeq(str, i + Len(pattern), Len(str))

(* ---- validateTwilioRequest (server.ts:18-28) ---- *)
\* the characters of the texts considered, in the order of their codes;
\* CodeOf is the rank of a character in that order
CharTable == " +-./0123456789:=ABCDEFGHIJKLMNOPQRSTUVWXYZ_abcdefghijklmnopqrstuvwxyz|"
CharCodes ==
  [ch \in {SubSeq(CharTable, i, i) : i \in 1..Len(CharTable)} |->
     CHOOSE i \in 1..Len(CharTable) : SubSeq(CharTable, i, i) = ch]
CodeOf(ch) == CharCodes[ch]

\* a < b in the order of Array.prototype.sort without a comparator (by code
\* units, a proper prefix first)
RECURSIVE Less(_, _)
Less(a, b) ==
  IF b = "" THEN FALSE
  ELSE IF a = "" THEN TRUE
  ELSE IF SubSeq(a, 1, 1) # SubSeq(b, 1, 1)
    THEN CodeOf(SubSeq(a, 1, 1)) < CodeOf(SubSeq(b, 1, 1))
  ELSE Less(SubSeq(a, 2, Len(a)), SubSeq(b, 2, Len(b)))

\* Object.keys(params).sort() and the reduce of server.ts:24: the entries
\* <<key, value>> of the form body in ascending order of their keys
RECURSIVE SortEntries(_)
SortEntries(entries) ==
  IF entries = <<>> THEN <<>>
  ELSE LET i == CHOOSE x \in 1..Len(entries) :
                  \A y \in 1..Len(entries) : ~Less(entries[y][1], entries[x][1])
           rest == [k \in 1..(Len(entries) - 1) |->
                      IF k < i THEN entries[k] ELSE entries[k + 1]]
       IN <<entries[i]>> \o SortEntries(rest)

\* Object.entries(sorted).map(([k, v]) => `${k}${v}`).join('')
RECURSIVE EntriesText(_)
EntriesText(entries) ==
  IF entries = <<>> THEN ""
  ELSE entries[1][1] \o entries[1][2] \o EntriesText(Tail(entries))

Base64Alphabet == "ABCDEFGHIJKLMNOPQRSTUVWXYZabcdefghijklmnopqrstuvwxyz0123456789+/"

\* the sum of the codes of the characters of text at positions i, i + 27, ...
RECURSIVE FoldCodes(_, _)
FoldCodes(text, i) ==
  IF i > Len(text) THEN 0
  ELSE CodeOf(SubSeq(text, i, i)) * (1 + i \div 27) + FoldCodes(text, i + 27)

RECURSIVE DigestChars(_, _)
DigestChars(text, p) ==
  IF p > 27 THEN ""
  ELSE LET n == (FoldCodes(text, p) + 7 * p + Len(text)) % 64 IN
       SubSeq(Base64Alphabet, n + 1, n + 1) \o DigestChars(text, p + 1)

\* crypto.createHmac('sha1', key).update(data).digest('base64'): a keyed
\* digest of 20 bytes, in base64 a text of 28 characters that ends in '='.
\* SHA-1 itself is not computed: the digest here is a fold of key and data
\* into 27 base64 characters, different for the different inputs considered.
HmacSha1Base64(key, data) == DigestChars(key \o "|" \o data, 1) \o "="

TimingSafeEqualLength == "Input buffers must have the same byte length"

\* crypto.timingSafeEqual(Buffer.from(a), Buffer.from(b)): a RangeError for
\* buffers of different byte length
timingSafeEqual(a, b) ==
  IF Len(a) # Len(b) THEN Throw(TimingSafeEqualLength) ELSE Return(a = b)

\* server.ts:18-28; the request is given by its X-Twilio-Signature header
\* and the entries of its form body
validateTwilioRequest(token, publicUrl, signatureHeader, params) ==
  IF ~Truthy(token) THEN Return(TRUE)
  ELSE LET signature == IF Truthy(signatureHeader) THEN signatureHeader.s ELSE ""
           url == publicUrl \o "/twilio/voice"
           data == url \o EntriesText(SortEntries(params))
           computed == HmacSha1Base64(token.s, data)
       IN timingSafeEqual(signature, computed)

\* the form bodies of a webhook request (express.urlencoded): none, and the
\* caller and the call in the order sent
FormBodies ==
  { <<>>, << <<"From", "+15550100">>, <<"CallSid", "CA1">> >> }

\* the texts a sender may have signed: the parameters of FormBodies in
\* ascending order of the keys, and in the order sent
SignedTexts == {"", "CallSidCA1From+15550100", "From+15550100CallSidCA1"}

\* the X-Twilio-Signature values a request may carry: none, empty, a short
\* text, and digests made with the shared secret or with another key over
\* the callback URL or over another URL
ValidationSignatures ==
  SignatureHeaders
  \cup {Str(HmacSha1Base64("secret", u \o "/twilio/voice" \o t)) :
          u \in {PUBLIC_URL, "https://elsewhere.example"}, t \in SignedTexts}
  \cup {Str(HmacSha1Base64("guess", PUBLIC_URL \o "/twilio/voice"))}

NewValidation ==
  [pc |-> "new", signature |-> Undefined, params |-> <<>>, result |-> Throw("")]

\* validateTwilioRequest applied to a request with the given signature
\* header and form body
Validate(v, signature, params) ==
  /\ validations[v].pc = "new" /\ \A u \in ValidationIds : u < v => validations[u].pc # "new"
  /\ validations' = [validations EXCEPT ![v] =
       [pc |-> "done", signature |-> signature, params |-> params,
        result |-> validateTwilioRequest(TWILIO_AUTH_TOKEN, PUBLIC_URL, signature, params)]]
  /\ UNCHANGED <<PUBLIC_URL, TWILIO_AUTH_TOKEN, voiceReq, sdpVars, wsVars, toolVars, streamVars>>

\* a plausible slip: the stream url keeps the scheme of the public URL
wsUrlKeepsScheme(publicUrl) == publicUrl \o "/twilio/stream"

\* server.ts:34
wsUrl(publicUrl) == Replace(publicUrl, "http", "ws") \o "/twilio/stream"

\* server.ts:35-42
twiml(publicUrl) ==
  "<?xml version=\"1.0\" encoding=\"UTF-8\"?>\n"
  \o "    <Response>\n"
  \o "      <Say>Connecting you to the assistant.</Say>\n"
  \o "      <Start>\n"
  \o "        <Stream url=\"" \o wsUrl(publicUrl) \o "\" />\n"
  \o "      </Start>\n"
  \o "      <Pause length=\"60\" />\n"
  \o "    </Response>"

\* res.type('text/xml').send(body)
ResXml(body) == [status |-> 200, type |-> "text/xml", body |-> body]

NewVoiceReq == [pc |-> "new", signature |-> Undefined, responses |-> <<>>]

InitVoice ==
  /\ PUBLIC_URL \in {PublicUrlOf(env) : env \in PublicUrlEnv}
  /\ TWILIO_AUTH_TOKEN \in TwilioAuthTokens
  /\ voiceReq = [w \in VoiceReqIds |-> NewVoiceReq]
  /\ validations = [v \in ValidationIds |-> NewValidation]

\* res.status(403).send('Forbidden'), and the answer of Express to an
\* exception thrown in a route handler
Forbidden == [status |-> 403, type |-> "text/html", body |-> "Forbidden"]
InternalServerError == [status |-> 500, type |-> "text/html", body |-> "Internal Server Error"]

\* a plausible slip: the validation of server.ts:32 switched on
TwilioVoiceValidates(w, signature) ==
  /\ voiceReq[w].pc = "new"
  /\ LET valid == validateTwilioRequest(TWILIO_AUTH_TOKEN, PUBLIC_URL, signature, <<>>) IN
     voiceReq' = [voiceReq EXCEPT ![w] =
       [@ EXCEPT !.pc = "done", !.signature = signature,
                 !.responses = Append(@,
                    IF valid.kind = "throw" THEN InternalServerError
                    ELSE IF ~valid.value THEN Forbidden
                    ELSE ResXml(twiml(PUBLIC_URL)))]]
  /\ UNCHANGED <<PUBLIC_URL, TWILIO_AUTH_TOKEN, validations,
                 sdpVars, wsVars, toolVars, streamVars>>

\* app.post('/twilio/voice'): the signature is not looked at (the call of
\* validateTwilioRequest is commented out, server.ts:32); the TwiML is sent
TwilioVoice(w, signature) ==
  /\ voiceReq[w].pc = "new"
  /\ voiceReq' = [voiceReq EXCEPT ![w] =
       [@ EXCEPT !.pc = "done", !.signature = signature,
                 !.responses = Append(@, ResXml(twiml(PUBLIC_URL)))]]
  /\ UNCHANGED <<PUBLIC_URL, TWILIO_AUTH_TOKEN, validations,
                 sdpVars, wsVars, toolVars, streamVars>>

(* ------------------------ media-stream frames -------------------------- *)
\* the i-th character of a text ("" past its end)
Char(text, i) == IF i >= 1 /\ i <= Len(text) THEN SubSeq(text, i, i) ELSE ""

Digits == {"0", "1", "2", "3", "4", "5", "6", "7", "8", "9"}

\* JSON.parse throws a SyntaxError
SyntaxError == [ok |-> FALSE, t |-> "", members |-> <<>>]
\* JSON.parse returns a value: null, a number, a string, or an object given
\* by its members <<key, value>> in the order of the text
Parsed(t, members) == [ok |-> TRUE, t |-> t, members |-> members]

\* a JSON string starting at position i (escapes are not read: the frames
\* considered have none)
ParseStringAt(text, i) ==
  IF Char(text, i) # "\"" THEN [ok |-> FALSE, s |-> "", next |-> i]
  ELSE LET close == {j \in (i + 1)..Len(text) : Char(text, j) = "\""} IN
    IF close = {} THEN [ok |-> FALSE, s |-> "", next |-> i]
    ELSE LET j == CHOOSE x \in close : \A y \in close : x <= y IN
      [ok |-> TRUE, s |-> SubSeq(text, i + 1, j - 1), next |-> j + 1]

\* the members of a JSON object from position i on: "key":"value" pairs
\* separated by commas and closed by the brace that ends the text
RECURSIVE ParseMembers(_, _, _)
ParseMembers(text, i, acc) ==
  LET k == ParseStringAt(text, i) IN
  IF ~k.ok \/ Char(text, k.next) # ":" THEN SyntaxError
  ELSE LET v == ParseStringAt(text, k.next + 1) IN
    IF ~v.ok THEN SyntaxError
    ELSE LET members == Append(acc, <<k.s, v.s>>) IN
      CASE Char(text, v.next) = "," -> ParseMembers(text, v.next + 1, members)
        [] Char(text, v.next) = "}" /\ v.next = Len(text) -> Parsed("object", members)
        [] OTHER -> SyntaxError

\* JSON.parse(text), for texts without white space: null, an unsigned
\* integer, a string, or an object whose values are strings
JsonParse(text) ==
  CASE text = "null" -> Parsed("null", <<>>)
    [] text # "" /\ (\A i \in 1..Len(text) : Char(text, i) \in Digits)
         /\ (Len(text) > 1 => Char(text, 1) # "0") -> Parsed("number", <<>>)
    [] Char(text, 1) = "\"" ->
         LET str == ParseStringAt(text, 1) IN
         IF str.ok /\ str.next = Len(text) + 1 THEN Parsed("string", <<>>) ELSE SyntaxError
    [] text = "{}" -> Parsed("object", <<>>)
    [] Char(text, 1) = "{" -> ParseMembers(text, 2, <<>>)
    [] OTHER -> SyntaxError

\* msg?.key of a parsed value: undefined for null and for a primitive, and
\* for an object the value of the last member with that key
Get(msg, key) ==
  LET at == {i \in 1..Len(msg.members) : msg.members[i][1] = key} IN
  IF msg.t # "object" \/ at = {} THEN Undefined
  ELSE Str(msg.members[CHOOSE i \in at : \A j \in at : j <= i][2])

\* the frames a media-stream peer may send: control events, a media event,
\* JSON values that are no events, and frames that are no JSON at all (a
\* truncated event, raw audio bytes, an empty frame)
StreamFrames ==
  { "{\"event\":\"start\",\"streamSid\":\"MZ1\"}",
    "{\"event\":\"media\",\"streamSid\":\"MZ1\"}",
    "{\"event\":\"stop\"}",
    "{\"streamSid\":\"MZ1\"}",
    "null",
    "{\"event\":\"mark\"",
    "RIFF audio",
    "" }

\* console.log(text)
LogLine(text) == [level |-> "log", text |-> text]

\* a plausible slip: the handler parses the frame outside a try block
OnMessageHandlerNoCatch(data) ==
  LET msg == JsonParse(data)
      eventName == Get(msg, "event")
      streamSid == Get(msg, "streamSid")
  IN
  IF ~msg.ok THEN [logs |-> <<>>, threw |-> TRUE]
  ELSE IF Truthy(eventName) /\ eventName.s \in {"start", "stop", "mark"}
    THEN [logs |-> <<LogLine("[twilio] event=" \o eventName.s
                       \o (IF Truthy(streamSid) THEN " streamSid=" \o streamSid.s ELSE ""))>>,
          threw |-> FALSE]
  ELSE [logs |-> <<>>, threw |-> FALSE]

\* a plausible slip: media events are logged like the control events
OnMessageHandlerLogsMedia(data) ==
  LET msg == JsonParse(data)
      eventName == Get(msg, "event")
      streamSid == Get(msg, "streamSid")
  IN
  IF ~msg.ok THEN [logs |-> <<>>, threw |-> FALSE]
  ELSE IF Truthy(eventName) /\ eventName.s \in {"start", "stop", "mark", "media"}
    THEN [logs |-> <<LogLine("[twilio] event=" \o eventName.s
                       \o (IF Truthy(streamSid) THEN " streamSid=" \o streamSid.s ELSE ""))>>,
          threw |-> FALSE]
  ELSE [logs |-> <<>>, threw |-> FALSE]

\* ws.on('message') of the gateway: what the handler logs for a frame and
\* whether an exception escapes it. A frame that does not parse is caught
\* and ignored; a start, stop or mark event is logged.
OnMessageHandler(data) ==
  LET msg == JsonParse(data)
      eventName == Get(msg, "event")
      streamSid == Get(msg, "streamSid")
  IN
  IF ~msg.ok THEN [logs |-> <<>>, threw |-> FALSE]
  ELSE IF Truthy(eventName) /\ eventName.s \in {"start", "stop", "mark"}
    THEN [logs |-> <<LogLine("[twilio] event=" \o eventName.s
                       \o (IF Truthy(streamSid) THEN " streamSid=" \o streamSid.s ELSE ""))>>,
          threw |-> FALSE]
  ELSE [logs |-> <<>>, threw |-> FALSE]

InitStream ==
  /\ console = <<>>
  /\ delivered = [c \in ConnIds |-> <<>>]
  /\ uncaught = 0
  /\ sent = [c \in ConnIds |-> <<>>]

\* the frames connection c has received so far
FramesReceived(c) == Len(delivered[c]) + uncaught

\* a plausible slip: a tool handler that waits for its accessor without
\* yielding, so that no frame is handled while a call is in flight
OnMessageAfterCalls(c, data) ==
  /\ conn[c].ws = "open"
  /\ FramesReceived(c) < MaxFrames
  /\ \A id \in CallIds : calls[id].state # "pending"
  /\ LET h == OnMessageHandler(data) IN
       /\ console' = console \o h.logs
       /\ uncaught' = IF h.threw THEN uncaught + 1 ELSE uncaught
       /\ delivered' \in
            (IF h.threw THEN {delivered} ELSE {})
              \cup {[delivered EXCEPT ![c] = Append(@, data)]}
  /\ UNCHANGED <<sent, wsVars, sdpVars, toolVars, voiceVars>>

\* a frame arrives on the open socket of connection c: the socket emits
\* 'message' to its listeners, the gateway's logging handler and the
\* transport layer built on the socket. An exception escaping a listener
\* ends the emit, so the listeners after it are not called; which of the
\* two listeners is first is the transport library's matter.
OnMessage(c, data) ==
  /\ conn[c].ws = "open"
  /\ FramesReceived(c) < MaxFrames
  /\ LET h == OnMessageHandler(data) IN
       /\ console' = console \o h.logs
       /\ uncaught' = IF h.threw THEN uncaught + 1 ELSE uncaught
       /\ delivered' \in
            (IF h.threw THEN {delivered} ELSE {})
              \cup {[delivered EXCEPT ![c] = Append(@, data)]}
  /\ UNCHANGED <<sent, wsVars, sdpVars, toolVars, voiceVars>>

\* the close codes and reasons a media-stream peer may end with; the reason
\* reaches the handler as a Buffer, or as a value without toString
CloseCodes == {1000, 1006}
CloseReasons == {Undefined, Str(""), Str("hangup")}

\* the reasonText of ws.on('close'): reason.toString(), or '' when that throws
ReasonText(reason) == IF reason = Undefined THEN "" ELSE reason.s

\* the media-stream WebSocket of connection c is closed with a code and a
\* reason: the socket emits 'close' to the gateway's logging handler
OnClose(c, code, reason) ==
  /\ conn[c].ws \in {"open", "closing"}
  /\ conn' = [conn EXCEPT ![c] = [@ EXCEPT !.ws = "closed"]]
  /\ console' = Append(console,
       LogLine("[twilio] WebSocket closed code=" \o ToString(code)
               \o " reason=\"" \o ReasonText(reason) \o "\""))
  /\ UNCHANGED <<delivered, uncaught, sent, listening, activeAgents,
                 sdpVars, toolVars, voiceVars>>

\* frames beside StreamFrames: a mark event that carries a name, a media
\* event that carries audio, and a start event with an empty stream id
LabelledFrames ==
  { "{\"event\":\"mark\",\"streamSid\":\"MZ1\",\"name\":\"greeting\"}",
    "{\"event\":\"media\",\"streamSid\":\"MZ1\",\"payload\":\"UklGRg\"}",
    "{\"event\":\"start\",\"streamSid\":\"\"}" }

\* the audio the speech model may send
ModelAudioChunks == {"pcm"}

\* the model sends audio on the live connection of session c: the agent's
\* transport layer writes it to the socket it was built on
ModelAudio(c, chunk) ==
  /\ conn[c].model = "connected"
  /\ conn[c].ws = "open"
  /\ Len(sent[c]) < MaxFrames
  /\ sent' = [sent EXCEPT ![c] = Append(@, chunk)]
  /\ UNCHANGED <<console, delivered, uncaught, wsVars, sdpVars, toolVars, voiceVars>>

Init ==
  /\ OPENAI_API_KEY \in ApiKeys
  /\ InitSdp
  /\ InitWs
  /\ InitTools
  /\ InitStream
  /\ InitVoice

NextSdp ==
  \/ \E r \in SdpReqIds, v \in SdpFieldValues : SdpPost(r, v)
  \/ \E r \in SdpReqIds, s \in UpstreamStatuses, b \in UpstreamBodies : SdpFetchResolves(r, s, b)
  \/ \E r \in SdpReqIds : SdpFetchRejects(r)
  \/ \E r \in SdpReqIds : SdpTextResolves(r)
  \/ \E r \in SdpReqIds : SdpTextRejects(r)

NextWs ==
  \/ \E c \in ConnIds, url \in UpgradeUrls : UpgradeReject(c, url)
  \/ \E c \in ConnIds, url \in UpgradeUrls : UpgradeAccept(c, url)
  \/ \E c \in ConnIds : ConnectResolves(c)
  \/ \E c \in ConnIds : ConnectRejects(c)
  \/ \E c \in ConnIds : WsClosed(c)
  \/ \E c \in ConnIds : ModelDrop(c)

NextTools ==
  \/ \E c \in ConnIds, id \in CallIds, tool \in ToolNames :
       \E args \in ToolArgs(tool) : ToolCall(c, id, tool, args)
  \/ \E id \in CallIds :
       \E out \in AccessorOutcomes(calls[id].tool, calls[id].args) : ToolCompletes(id, out)

\* the tool call that fails hardest: reading a document that does not exist,
\* answered by the accessor with not-found (the handler throws)
FailingCalls ==
  {[tool |-> "file_operation", args |-> [operation |-> "read", filename |-> "missing.md"]]}

NextFailingTools ==
  \/ \E c \in ConnIds, id \in CallIds, k \in FailingCalls : ToolCall(c, id, k.tool, k.args)
  \/ \E id \in CallIds :
       \E out \in AccessorOutcomes(calls[id].tool, calls[id].args) :
         out.kind = "response" /\ out.json /\ ToolCompletes(id, out)

\* the tool calls of the first session
NextToolsOfOne ==
  \/ UpgradeAccept(1, "/twilio/stream")
  \/ ConnectResolves(1)
  \/ \E id \in CallIds, tool \in ToolNames :
       \E args \in ToolArgs(tool) : ToolCall(1, id, tool, args)
  \/ \E id \in CallIds :
       \E out \in AccessorOutcomes(calls[id].tool, calls[id].args) : ToolCompletes(id, out)

NextVoice ==
  \E w \in VoiceReqIds, signature \in SignatureHeaders : TwilioVoice(w, signature)

Next == NextSdp \/ NextWs \/ NextTools \/ NextVoice
        \/ (\E c \in ConnIds, data \in StreamFrames : OnMessage(c, data))
        \/ (\E c \in ConnIds, chunk \in ModelAudioChunks : ModelAudio(c, chunk))

Spec == Init /\ [][Next]_vars

\* the start-up configuration with PUBLIC_URL unset (the public URL plays a
\* part in the voice webhook only)
InitLocal ==
  Init /\ PUBLIC_URL = PublicUrlOf(Undefined) /\ TWILIO_AUTH_TOKEN = Undefined

\* the SDP relay alone
SpecSdp == InitLocal /\ [][NextSdp]_vars

\* the media-stream sessions, with tool calls that fail (the credential
\* plays no part in them; the other tool calls are in SpecTools)
InitWithKey == InitLocal /\ OPENAI_API_KEY = "sk-key"
NextSessions == NextWs \/ NextFailingTools
SpecWs == InitWithKey /\ [][NextSessions]_vars

\* the tool handlers, called by the model of one session
SpecTools == InitWithKey /\ [][NextToolsOfOne]_vars

\* the voice webhook alone, under every configuration
SpecVoice == Init /\ [][NextVoice]_vars

\* one request to the voice webhook beside validateTwilioRequest, which no
\* route calls: the function is applied to requests of every signature and
\* form body
InitWebhook ==
  Init /\ OPENAI_API_KEY = "sk-key"
       /\ PUBLIC_URL \in {PublicUrlOf(Undefined), "https://abc.ngrok.app"}
NextWebhook ==
  \/ \E signature \in SignatureHeaders : TwilioVoice(1, signature)
  \/ \E v \in ValidationIds, signature \in ValidationSignatures, params \in FormBodies :
       Validate(v, signature, params)
SpecWebhook == InitWebhook /\ [][NextWebhook]_vars

\* the frames of one media-stream connection
NextStream ==
  \/ UpgradeAccept(1, "/twilio/stream")
  \/ ConnectResolves(1)
  \/ \E data \in StreamFrames : OnMessage(1, data)
  \/ WsClosed(1)
SpecStream == InitWithKey /\ [][NextStream]_vars

\* the frames and the close of one media-stream connection, as logged
NextStreamLogged ==
  \/ UpgradeAccept(1, "/twilio/stream")
  \/ ConnectResolves(1)
  \/ \E data \in StreamFrames \cup LabelledFrames : OnMessage(1, data)
  \/ \E code \in CloseCodes, reason \in CloseReasons : OnClose(1, code, reason)
SpecStreamLogged == InitWithKey /\ [][NextStreamLogged]_vars

\* the media-stream sessions and their audio, with the steps the event loop is bound
\* to take: a connect under way settles (the promise of agent.connect()
\* resolves or rejects and the handler goes on), and a closing handshake
\* the gateway began comes to its end. What the peers do of their own
\* accord (a new connection, hanging up, dropping the model connection) is
\* under no fairness.
ConnectSettles(c) == ConnectResolves(c) \/ ConnectRejects(c)
ClosingEnds(c) == conn[c].ws = "closing" /\ WsClosed(c)
FairWs ==
  \A c \in ConnIds : WF_vars(ConnectSettles(c)) /\ WF_vars(ClosingEnds(c))
NextWsWithAudio ==
  \/ NextWs
  \/ \E c \in ConnIds : OnMessage(c, "RIFF audio")
SpecWsFair == InitWithKey /\ [][NextWsWithAudio]_vars /\ FairWs

\* the tool calls of the first session, whose peer may hang up while calls
\* are in flight
NextCallsAcrossClose == NextToolsOfOne \/ WsClosed(1)
SpecCallsAcrossClose == InitWithKey /\ [][NextCallsAcrossClose]_vars

\* the audio of the first session, both ways, around its calls of one tool
NextAudioDuringCalls ==
  \/ UpgradeAccept(1, "/twilio/stream")
  \/ ConnectResolves(1)
  \/ \E id \in CallIds : ToolCall(1, id, "list_available_scripts", NoArgs)
  \/ \E id \in CallIds :
       \E out \in AccessorOutcomes(calls[id].tool, calls[id].args) : ToolCompletes(id, out)
  \/ OnMessage(1, "RIFF audio")
  \/ \E chunk \in ModelAudioChunks : ModelAudio(1, chunk)
SpecAudioDuringCalls == InitWithKey /\ [][NextAudioDuringCalls]_vars

\* the SDP relay beside media-stream sessions that come and connect (one
\* upstream answer of each kind is enough here; SpecSdp has them all)
NextRelayBesideSessions ==
  \/ \E r \in SdpReqIds, v \in SdpFieldValues : SdpPost(r, v)
  \/ \E r \in SdpReqIds, s \in {200, 503} : SdpFetchResolves(r, s, "v=0 answer")
  \/ \E r \in SdpReqIds : SdpFetchRejects(r)
  \/ \E r \in SdpReqIds : SdpTextResolves(r)
  \/ \E r \in SdpReqIds : SdpTextRejects(r)
  \/ \E c \in ConnIds : UpgradeAccept(c, "/twilio/stream")
  \/ \E c \in ConnIds : ConnectResolves(c)
SpecRelayBesideSessions == InitLocal /\ [][NextRelayBesideSessions]_vars

(* ======================= claims: the SDP relay ========================= *)

\* a request whose handler has run to its end
SdpDone(r) == sdpReq[r].pc = "done"
\* a request that carried a non-empty SDP offer (a text)
HasOffer(r) == sdpReq[r].pc # "new" /\ sdpReq[r].sdp.t = "string" /\ sdpReq[r].sdp.s # ""
\* the upstream answered and its body was read
UpstreamAnswered(r) == SdpDone(r) /\ sdpReq[r].rtResp # NoResp /\ ~sdpReq[r].threw

\* C1 as stated: for every request with a non-empty offer and the credential
\* set, and every upstream response, the caller gets exactly the upstream's
\* body and exactly the upstream's status, and the upstream got exactly the
\* offer.
C1_Original ==
  \A r \in SdpReqIds :
    (HasOffer(r) /\ OPENAI_API_KEY # "" /\ UpstreamAnswered(r)) =>
      /\ Len(sdpReq[r].responses) = 1
      /\ sdpReq[r].responses[1].body = sdpReq[r].rtResp.body
      /\ sdpReq[r].responses[1].status = sdpReq[r].rtResp.status
      /\ Len(sdpReq[r].fetches) = 1
      /\ sdpReq[r].fetches[1].body = sdpReq[r].sdp.s

\* C1 amended: the caller gets exactly the upstream's body; the status is the
\* upstream's when the upstream's status is not a success (not 200..299) and
\* is 200 for every successful upstream status; the upstream got exactly the
\* offer (String(sdp) for an offer that is not a text).
C1_RelayOpacity ==
  \A r \in SdpReqIds :
    /\ (HasOffer(r) /\ OPENAI_API_KEY # "" /\ UpstreamAnswered(r)) =>
         /\ Len(sdpReq[r].responses) = 1
         /\ sdpReq[r].responses[1].body = sdpReq[r].rtResp.body
         /\ sdpReq[r].responses[1].status =
              (IF Ok(sdpReq[r].rtResp) THEN 200 ELSE sdpReq[r].rtResp.status)
    /\ (HasOffer(r) /\ sdpReq[r].fetches # <<>>) =>
         /\ Len(sdpReq[r].fetches) = 1
         /\ sdpReq[r].fetches[1].body = sdpReq[r].sdp.s
    /\ (sdpReq[r].pc # "new" /\ sdpReq[r].fetches # <<>>) =>
         sdpReq[r].fetches[1].body = JsString(sdpReq[r].sdp)

\* C1 witness: an upstream answer with status 201 has been relayed with its
\* body and status 200
C1_Witness ==
  \E r \in SdpReqIds :
    /\ HasOffer(r) /\ UpstreamAnswered(r)
    /\ sdpReq[r].rtResp.status = 201
    /\ sdpReq[r].responses = <<ResSdp(sdpReq[r].rtResp.body)>>

\* C8: a request with a missing or empty SDP offer is answered 400, whatever
\* the credential, and nothing else happens for it.
C8_MissingOffer400 ==
  \A r \in SdpReqIds :
    (sdpReq[r].pc # "new" /\ sdpReq[r].sdp \in {Undefined, Str("")}) =>
      /\ SdpDone(r)
      /\ Len(sdpReq[r].responses) = 1
      /\ sdpReq[r].responses[1].status = 400
      /\ sdpReq[r].fetches = <<>>

\* C8 witness: with no credential configured, a request without an offer and
\* one with an empty offer have both been answered 400
C8_Witness ==
  /\ OPENAI_API_KEY = ""
  /\ \E r \in SdpReqIds : SdpDone(r) /\ sdpReq[r].sdp = Undefined
                          /\ sdpReq[r].responses[1].status = 400
  /\ \E r \in SdpReqIds : SdpDone(r) /\ sdpReq[r].sdp = Str("")
                          /\ sdpReq[r].responses[1].status = 400

\* C9: a request with a non-empty offer while the credential is not
\* configured is answered 500 (server configuration error) and the upstream
\* is not contacted.
C9_MissingKey500 ==
  \A r \in SdpReqIds :
    (sdpReq[r].pc # "new" /\ Truthy(sdpReq[r].sdp) /\ OPENAI_API_KEY = "") =>
      /\ SdpDone(r)
      /\ sdpReq[r].responses = <<ResJson(500, "Server missing OPENAI_API_KEY")>>
      /\ sdpReq[r].fetches = <<>>

\* C9 witness: a request with an offer was answered 500 with no credential
C9_Witness ==
  \E r \in SdpReqIds :
    /\ HasOffer(r) /\ OPENAI_API_KEY = "" /\ SdpDone(r)
    /\ sdpReq[r].responses[1].status = 500

\* the upstream signaling call of request r failed: it raised, or it returned
\* a status that is not a success
UpstreamFailed(r) ==
  /\ SdpDone(r) /\ sdpReq[r].fetches # <<>>
  /\ (sdpReq[r].threw \/ ~Ok(sdpReq[r].rtResp))

\* C10 as stated: whenever the upstream signaling call fails, the response
\* carries the upstream's status and body; the relay never substitutes its own.
C10_Original ==
  \A r \in SdpReqIds :
    UpstreamFailed(r) =>
      /\ Len(sdpReq[r].responses) = 1
      /\ sdpReq[r].responses[1].status = sdpReq[r].rtResp.status
      /\ sdpReq[r].responses[1].body = sdpReq[r].rtResp.body

\* C10 amended: when the upstream returns a response whose status is not a
\* success and its body is read, the caller gets that status and body
\* unchanged; when the call raises instead (no response, or an unreadable
\* body) the relay answers 500 with its own body {"error":"SDP proxy error"}.
C10_FailurePassThrough ==
  \A r \in SdpReqIds :
    UpstreamFailed(r) =>
      /\ Len(sdpReq[r].responses) = 1
      /\ ~sdpReq[r].threw =>
           /\ sdpReq[r].responses[1].status = sdpReq[r].rtResp.status
           /\ sdpReq[r].responses[1].body = sdpReq[r].rtResp.body
      /\ sdpReq[r].threw => sdpReq[r].responses[1] = ResJson(500, "SDP proxy error")

\* C10 witness: an upstream 503 has been passed through with its body
C10_Witness ==
  \E r \in SdpReqIds :
    /\ UpstreamFailed(r) /\ ~sdpReq[r].threw
    /\ sdpReq[r].rtResp.status = 503
    /\ sdpReq[r].responses[1].status = 503
    /\ sdpReq[r].responses[1].body = sdpReq[r].rtResp.body

(* ===================== claims: media-stream sessions =================== *)

\* C2 as stated: no session outlives its transport: every entry of
\* activeAgents belongs to a connection whose WebSocket is still open.
C2_NoSessionOutlivesTransport ==
  \A u \in DOMAIN activeAgents : conn[activeAgents[u]].ws = "open"

\* the connection handler of session c has run to its end
Quiescent(c) == conn[c].pc = "done"

\* C3 as stated: a session cannot remain half-open: in no quiescent state
\* has a session an open WebSocket and a failed model connection.
C3_NeverHalfOpen ==
  \A c \in ConnIds : (Quiescent(c) /\ conn[c].model = "failed") => conn[c].ws # "open"

\* a tool call of session i ends in an error: its handler throws or returns a
\* failure result
ToolFails(i) ==
  \E id \in CallIds :
    /\ calls[id].conn = i
    /\ \E out \in AccessorOutcomes(calls[id].tool, calls[id].args) : ToolCompletes(id, out)
    /\ \/ calls'[id].state = "threw"
       \/ ~calls'[id].output.value.success

\* C4: a close of session i's WebSocket, a failed or dropped model connection
\* of session i and a tool error of session i leave the WebSocket and the
\* model connection of every other session as they were, and the gateway
\* still accepts connections.
C4_SessionIsolation ==
  [][\A i \in ConnIds :
       (WsClosed(i) \/ ConnectRejects(i) \/ ModelDrop(i) \/ ToolFails(i)) =>
         /\ listening'
         /\ \A j \in ConnIds \ {i} :
              conn'[j].ws = conn[j].ws /\ conn'[j].model = conn[j].model]_vars

\* C4 witness: one session lost its model connection and its WebSocket while
\* another, with a tool call that threw, is open and connected
C4_Witness ==
  \E i, j \in ConnIds :
    /\ i # j /\ listening
    /\ conn[i].model = "failed" /\ conn[i].ws = "closed"
    /\ conn[j].ws = "open" /\ conn[j].model = "connected"
    /\ \E id \in CallIds : calls[id].conn = j /\ calls[id].state = "threw"

(* ========================= claims: tool calls ========================== *)

\* the handler of call id has run to its end
Settled(id) == calls[id].state \in {"returned", "threw"}

\* the results produced for call id
ResultsOf(id) == {k \in 1..Len(results) : results[k].callId = id}

\* C5 as stated: for every tool-call request exactly one result is produced,
\* carrying the correlation id of its request (none while the call is pending).
C5_ExactlyOneResult ==
  \A id \in CallIds :
    /\ Settled(id) => Cardinality(ResultsOf(id)) = 1
    /\ ~Settled(id) => ResultsOf(id) = {}

\* C6 as stated: the file_operation handler never raises: whatever the
\* accessor's outcome, it returns a result value.
C6_FileOperationNeverRaises ==
  \A id \in CallIds :
    (calls[id].tool = "file_operation" /\ Settled(id)) =>
      /\ calls[id].state = "returned"
      /\ calls[id].output.kind = "return"

\* C7: get_script_info with a name the catalog does not know returns (it does
\* not throw) a result with success = false, and when the accessor answered
\* with a status that is not a success the error message contains the name.
C7_UnknownScriptFailure ==
  \A id \in CallIds :
    (calls[id].tool = "get_script_info" /\ Settled(id)
       /\ calls[id].args.script_name \notin KnownScripts) =>
      /\ calls[id].state = "returned"
      /\ calls[id].output.value.success = FALSE
      /\ (calls[id].out.kind = "response" /\ ~Ok(calls[id].out)) =>
           Contains(calls[id].output.value.error, calls[id].args.script_name)

\* C7 witness: the lookup of "nope" was answered 404 and the handler returned
\* a failure naming "nope"
C7_Witness ==
  \E id \in CallIds :
    /\ calls[id].tool = "get_script_info" /\ calls[id].state = "returned"
    /\ calls[id].args.script_name = "nope"
    /\ calls[id].out.kind = "response" /\ calls[id].out.status = 404
    /\ calls[id].output.value.success = FALSE
    /\ Contains(calls[id].output.value.error, "nope")

(* ================== claims: the relay and the sessions ================= *)

\* C11: the SDP relay is stateless. Every step of a POST /realtime/sdp
\* handler, whatever the request's outcome, leaves the session registry
\* (activeAgents) as it is and neither opens nor changes a model connection
\* or a socket of a session.
C11_RelayStateless ==
  [][sdpReq' # sdpReq =>
       /\ activeAgents' = activeAgents
       /\ conn' = conn
       /\ listening' = listening]_vars

\* C11 witness: a session is registered while its model connection is
\* pending, and beside it one signaling request has been relayed and
\* another has failed upstream
C11_Witness ==
  /\ DOMAIN activeAgents # {}
  /\ \E c \in ConnIds : conn[c].model = "connecting"
  /\ \E r, q \in SdpReqIds :
       /\ UpstreamAnswered(r) /\ sdpReq[r].rtResp.status = 200
       /\ SdpDone(q) /\ sdpReq[q].threw

(* ======================= claims: session teardown ====================== *)

\* the states of a media-stream WebSocket
WsStates == {"none", "destroyed", "open", "closing", "closed"}

\* the connect of session c fails in this step: the catch block of the
\* connection handler runs, the only teardown the gateway performs itself
TeardownByHandler(c) ==
  /\ conn[c].pc = "awaitConnect"
  /\ conn'[c].pc = "done"
  /\ conn'[c].model = "failed"

C13_NonJsonFrameIsAudio ==
  [][\A c \in ConnIds, data \in StreamFrames :
       (OnMessage(c, data) /\ ~JsonParse(data).ok) =>
         /\ uncaught' = uncaught
         /\ console' = console
         /\ delivered'[c] = Append(delivered[c], data)]_vars

\* C13 witness: the transport layer has been handed raw audio bytes and a
\* truncated event, and the console is empty
C13_Witness ==
  /\ delivered[1] = <<"RIFF audio", "{\"event\":\"mark\"">>
  /\ console = <<>>
  /\ uncaught = 0

(* ====================== claims: the voice webhook ====================== *)

\* the url attribute of the Stream element of a TwiML document
StreamUrlOf(body) ==
  LET open == "<Stream url=\""
      rest == SubSeq(body, IndexOf(body, open) + Len(open), Len(body))
  IN SubSeq(rest, 1, IndexOf(rest, "\"") - 1)

\* scheme, authority (host and port) and path of an absolute URL
UrlScheme(url) == SubSeq(url, 1, IndexOf(url, "://") - 1)
AfterScheme(url) == SubSeq(url, IndexOf(url, "://") + 3, Len(url))
UrlAuthority(url) ==
  LET rest == AfterScheme(url) IN
  IF IndexOf(rest, "/") = 0 THEN rest ELSE SubSeq(rest, 1, IndexOf(rest, "/") - 1)
UrlPath(url) ==
  LET rest == AfterScheme(url) IN
  IF IndexOf(rest, "/") = 0 THEN "" ELSE SubSeq(rest, IndexOf(rest, "/"), Len(rest))

\* the response is an XML document with one Stream element
IsTwiml(res) ==
  /\ res.status = 200 /\ res.type = "text/xml"
  /\ IndexOf(res.body, "<?xml version=\"1.0\" encoding=\"UTF-8\"?>") = 1
  /\ IndexOf(res.body, "<Stream url=\"") > 0

\* the scheme of the stream url is ws for http and wss for https, and its
\* host is the public URL's
StreamSchemeAndHost(url) ==
  /\ UrlScheme(PUBLIC_URL) \in {"http", "https"}
  /\ UrlScheme(url) = (IF UrlScheme(PUBLIC_URL) = "https" THEN "wss" ELSE "ws")
  /\ UrlAuthority(url) = UrlAuthority(PUBLIC_URL)

\* C14 as stated: for every configured public URL the response to
\* POST /twilio/voice is an XML document whose Stream url has scheme ws or
\* wss, the public host, and the path /twilio/stream exactly.
C14_Original ==
  \A w \in VoiceReqIds : voiceReq[w].pc = "done" =>
    /\ Len(voiceReq[w].responses) = 1
    /\ LET res == voiceReq[w].responses[1] IN
         /\ IsTwiml(res)
         /\ StreamSchemeAndHost(StreamUrlOf(res.body))
         /\ UrlPath(StreamUrlOf(res.body)) = "/twilio/stream"

\* C14: for every configured public URL the response to POST /twilio/voice
\* is an XML document whose Stream url has scheme ws (http) or wss (https),
\* the public host, and as path the public URL's own path followed by
\* /twilio/stream: exactly /twilio/stream when the public URL is an origin
\* written without a trailing slash.
C14_StreamUrl ==
  \A w \in VoiceReqIds : voiceReq[w].pc = "done" =>
    /\ Len(voiceReq[w].responses) = 1
    /\ LET res == voiceReq[w].responses[1] IN
         /\ IsTwiml(res)
         /\ StreamSchemeAndHost(StreamUrlOf(res.body))
         /\ UrlPath(StreamUrlOf(res.body)) = UrlPath(PUBLIC_URL) \o "/twilio/stream"
         /\ UrlPath(PUBLIC_URL) = "" => UrlPath(StreamUrlOf(res.body)) = "/twilio/stream"

\* C14 witness: under an https public URL whose host has "http" in it, a
\* webhook request was answered with the wss url of that host
C14_Witness ==
  /\ PUBLIC_URL = "https://http.example.com"
  /\ \E w \in VoiceReqIds :
       /\ voiceReq[w].pc = "done"
       /\ StreamUrlOf(voiceReq[w].responses[1].body) = "wss://http.example.com/twilio/stream"

(* ==================== claims: upgrades and sessions ==================== *)

\* the path of a request url: the url up to its query string
RequestPath(url) == IF IndexOf(url, "?") = 0 THEN url ELSE SubSeq(url, 1, IndexOf(url, "?") - 1)

\* C15: an HTTP upgrade request is accepted as a media-stream connection
\* (and creates a session) if and only if its path is /twilio/stream; every
\* other upgrade request is rejected: its socket is destroyed, it gets no
\* WebSocket and the session registry stays as it is.
C15_UpgradeClassification ==
  [][\A c \in ConnIds, url \in UpgradeUrls :
       /\ UpgradeAccept(c, url) => RequestPath(url) = "/twilio/stream"
       /\ UpgradeReject(c, url) =>
            /\ RequestPath(url) # "/twilio/stream"
            /\ conn'[c].ws = "destroyed"
            /\ activeAgents' = activeAgents]_vars

\* C16: at most one model connection per session. A session whose model
\* connection is pending or live has had agent.connect() called for it
\* exactly once, and over its whole life no session has it called more
\* than once (a failed or dropped connection is not started again).
C16_OneModelConnection ==
  \A c \in ConnIds :
    /\ conn[c].connects <= 1
    /\ conn[c].model \in {"connecting", "connected", "failed"} <=> conn[c].connects = 1
    /\ conn[c].pc = "awaitConnect" => conn[c].model = "connecting"

\* C16 witness: one session lost its model connection in mid-call and
\* another failed to connect, each with its single connect behind it
C16_Witness ==
  \E c, d \in ConnIds :
    /\ c # d
    /\ conn[c].model = "failed" /\ conn[c].ws = "open" /\ conn[c].connects = 1
    /\ conn[d].model = "failed" /\ conn[d].ws = "closing" /\ conn[d].connects = 1

\* connection c was accepted as a media-stream connection
Accepted(c) == conn[c].ws \in {"open", "closing", "closed"}

\* C17: session creation allocates unique ids. A step never removes or
\* overwrites an entry of the registry; the step that accepts a connection
\* adds exactly one entry, under an id that was not in the registry; and
\* every accepted connection has exactly one entry, its own.
C17_UniqueSessionIds ==
  [][/\ \A u \in DOMAIN activeAgents :
          u \in DOMAIN activeAgents' /\ activeAgents'[u] = activeAgents[u]
     /\ \A c \in ConnIds : (~Accepted(c) /\ Accepted(c)') =>
          \E u \in DOMAIN activeAgents' :
            /\ u \notin DOMAIN activeAgents
            /\ DOMAIN activeAgents' = DOMAIN activeAgents \cup {u}
            /\ activeAgents'[u] = c
     /\ \A c \in ConnIds : Accepted(c)' =>
          Cardinality({u \in DOMAIN activeAgents' : activeAgents'[u] = c}) = 1]_vars

\* C17 witness: two sessions are in the registry under two ids
C17_Witness ==
  /\ Cardinality(DOMAIN activeAgents) = 2
  /\ \A u, v \in DOMAIN activeAgents : u # v => activeAgents[u] # activeAgents[v]
  /\ \A c \in ConnIds : Accepted(c)

\* the socket the agent of session c talks through
SocketOf(c) == conn[c].agent.transportLayer.websocket

\* C18: transport and model-connection handles are exclusive. No two
\* sessions' agents talk through the same WebSocket; each accepted
\* WebSocket is the socket of exactly one agent, the one built for it, and
\* each agent registered is the agent of exactly one accepted connection.
C18_ExclusiveHandles ==
  /\ \A c, d \in ConnIds : (Accepted(c) /\ Accepted(d) /\ c # d) => SocketOf(c) # SocketOf(d)
  /\ \A c \in ConnIds : Accepted(c) =>
       /\ SocketOf(c) = c
       /\ Cardinality({d \in ConnIds : Accepted(d) /\ SocketOf(d) = c}) = 1
  /\ \A c \in ConnIds : ~Accepted(c) => conn[c].agent = NoAgent
  /\ \A u \in DOMAIN activeAgents : Accepted(activeAgents[u])

\* C18 witness: two sessions are live at once, each agent connected
\* through its own socket
C18_Witness ==
  \E c, d \in ConnIds :
    /\ c # d
    /\ conn[c].ws = "open" /\ conn[c].model = "connected"
    /\ conn[d].ws = "open" /\ conn[d].model = "connected"
    /\ SocketOf(c) = c /\ SocketOf(d) = d

(* ======================== claims: the credential ======================= *)

\* the upstream signaling endpoint
UpstreamEndpoint == "https://api.openai.com/v1/realtime?model=gpt-4o-realtime-preview-2024-12-17"

\* what the caller is answered, told from the request and from what the
\* upstream did alone (its response, or its failure), without the credential
AnswerByRequestAndUpstream(r) ==
  IF ~Truthy(sdpReq[r].sdp)
    THEN [status |-> 400, ctype |-> "application/json", body |-> "{\"error\":\"Missing SDP\"}"]
  ELSE IF sdpReq[r].threw
    THEN [status |-> 500, ctype |-> "application/json", body |-> "{\"error\":\"SDP proxy error\"}"]
  ELSE IF sdpReq[r].rtResp.status \in 200..299
    THEN [status |-> 200, ctype |-> "application/sdp", body |-> sdpReq[r].rtResp.body]
  ELSE [status |-> sdpReq[r].rtResp.status, ctype |-> "text/html", body |-> sdpReq[r].rtResp.body]

\* C19: the server credential never leaves the server. With a credential
\* set, whatever its value, every answered request to POST /realtime/sdp got
\* the one response that its body and the upstream's response (or failure)
\* determine, so two runs that differ in the credential only send the same
\* response; the response does not contain the credential; and the
\* credential is sent in the Authorization header of the fetch to the
\* upstream endpoint and nowhere else.
C19_CredentialStaysInside ==
  OPENAI_API_KEY # "" =>
    \A r \in SdpReqIds :
      /\ SdpDone(r) => sdpReq[r].responses = <<AnswerByRequestAndUpstream(r)>>
      /\ \A i \in 1..Len(sdpReq[r].responses) :
           /\ ~Contains(sdpReq[r].responses[i].body, OPENAI_API_KEY)
           /\ ~Contains(sdpReq[r].responses[i].ctype, OPENAI_API_KEY)
      /\ \A i \in 1..Len(sdpReq[r].fetches) :
           /\ sdpReq[r].fetches[i].url = UpstreamEndpoint
           /\ sdpReq[r].fetches[i].authorization = "Bearer " \o OPENAI_API_KEY
           /\ ~Contains(sdpReq[r].fetches[i].body, OPENAI_API_KEY)

\* C19 witness: under the second credential one request was relayed and
\* another was answered after the upstream failed, the credential having
\* gone upstream with both
C19_Witness ==
  /\ OPENAI_API_KEY = "sk-other"
  /\ \E r, q \in SdpReqIds :
       /\ UpstreamAnswered(r) /\ sdpReq[r].rtResp.status = 200
       /\ SdpDone(q) /\ sdpReq[q].threw
       /\ sdpReq[r].fetches[1].authorization = "Bearer sk-other"
       /\ sdpReq[q].fetches[1].authorization = "Bearer sk-other"

(* ========================= claims: tool errors ========================= *)

\* the accessor's exchange failed: no response, a status that is not a
\* success, or a body that is no JSON
AccessorFailed(out) == out.kind = "network" \/ ~Ok(out) \/ ~out.json

\* C20: a tool error is never fatal to its session. When a call of one of
\* the three tools ends after its accessor failed, the handler returns a
\* failure result (it does not throw), the result is handed back to the
\* model, and the step changes neither the session's WebSocket nor its
\* model connection.
C20_ToolErrorNeverFatal ==
  [][\A id \in CallIds :
       (~Settled(id) /\ Settled(id)' /\ AccessorFailed(calls'[id].out)) =>
         /\ calls'[id].state = "returned"
         /\ calls'[id].output.value.success = FALSE
         /\ results' = Append(results, [callId |-> id, value |-> calls'[id].output.value])
         /\ conn' = conn]_vars

(* ====================== claims: session lifecycle ====================== *)

\* the lifecycle state of the session of connection c, read off its socket
\* and its model connection: a session whose socket is open is connecting
\* or active with its model connection, and on its way out without it
Lifecycle(c) ==
  CASE conn[c].ws \in {"none", "destroyed"} -> "none"
    [] conn[c].ws = "closed" -> "closed"
    [] conn[c].ws = "closing" -> "closing"
    [] conn[c].model = "connecting" -> "connecting"
    [] conn[c].model = "connected" -> "active"
    [] OTHER -> "closing"

LifecycleRank(state) ==
  CASE state = "none" -> 0
    [] state = "connecting" -> 1
    [] state = "active" -> 2
    [] state = "closing" -> 3
    [] OTHER -> 4

\* the session of connection c is in the registry
Registered(c) == \E u \in DOMAIN activeAgents : activeAgents[u] = c

\* the model connection of session c is pending or live
ModelConnectionHeld(c) == conn[c].model \in {"connecting", "connected"}

\* C22: every session moves only forward through connecting, active,
\* closing, closed; closed is terminal; and a session in closed holds no
\* model connection and is not in the registry.
C22_LifecycleOrder ==
  [][\A c \in ConnIds :
       /\ LifecycleRank(Lifecycle(c)') >= LifecycleRank(Lifecycle(c))
       /\ Lifecycle(c) = "closed" => Lifecycle(c)' = "closed"
       /\ Lifecycle(c)' = "closed" => (~ModelConnectionHeld(c)' /\ ~Registered(c)')]_vars

\* C23: a transport disconnect in any session state leads to closed: once
\* the media-stream WebSocket of a session is closed, the session's model
\* connection is eventually closed too (it is neither pending nor live),
\* also when the socket closed while the model connection was being made.
C23_DisconnectLeadsToClosed ==
  \A c \in ConnIds : (conn[c].ws = "closed") ~> (~ModelConnectionHeld(c))

(* ===================== claims: tool calls in a session ================= *)

\* C24: tool-call dispatch causes no lifecycle transition. A step that
\* starts a tool call or ends one, with a result, a failure result or an
\* exception, leaves every session's socket, model connection and agent,
\* the registry and the listener as they are.
C24_ToolCallsLeaveLifecycle ==
  [][calls' # calls =>
       /\ conn' = conn
       /\ activeAgents' = activeAgents
       /\ listening' = listening]_vars

\* C24 witness: in an active session one tool call has returned a result
\* of success and another has ended in a failure
C24_Witness ==
  \E c \in ConnIds, i, j \in CallIds :
    /\ Lifecycle(c) = "active" /\ Registered(c)
    /\ calls[i].conn = c /\ calls[i].state = "returned" /\ calls[i].output.value.success
    /\ calls[j].conn = c
    /\ \/ calls[j].state = "threw"
       \/ calls[j].state = "returned" /\ ~calls[j].output.value.success

\* C25: results of tool calls that complete after their session started
\* closing are discarded. When a call ends while the socket of its session
\* is closing or closed, nothing is handed back to the model (the results
\* stay as they are) and the frames and the console are left alone.
C25_LateResultsDiscarded ==
  [][\A id \in CallIds :
       (~Settled(id) /\ Settled(id)'
          /\ conn[calls[id].conn].ws \in {"closing", "closed"}) =>
         /\ results' = results
         /\ UNCHANGED streamVars]_vars

\* a tool call of session c is awaiting its accessor's response
CallPending(c) == \E id \in CallIds : calls[id].conn = c /\ calls[id].state = "pending"

\* C26: a pending tool call never blocks the audio relay of its own
\* session. In every state of an active session with a tool call awaiting
\* its accessor, the next frame from the peer can be handled and handed to
\* the transport layer and the next audio of the model can be written to
\* the socket (as long as the behaviour has frames left).
C26_PendingCallDoesNotBlockAudio ==
  \A c \in ConnIds : (Lifecycle(c) = "active" /\ CallPending(c)) =>
    /\ FramesReceived(c) < MaxFrames => ENABLED OnMessage(c, "RIFF audio")
    /\ Len(sent[c]) < MaxFrames => ENABLED ModelAudio(c, "pcm")

\* C26 witness: an active session with a call in flight has had audio
\* handled in both directions and has room for more
C26_Witness ==
  /\ Lifecycle(1) = "active" /\ CallPending(1)
  /\ delivered[1] = <<"RIFF audio">>
  /\ sent[1] = <<"pcm">>
  /\ \E id \in CallIds : calls[id].conn = 1 /\ Settled(id)

(* ===================== claims: the accessor exchange =================== *)

\* C29: a tool call is never retried. For every invocation of one of the
\* three tools the gateway sends at most one request to the accessor,
\* whether it succeeds or fails: one while the call is pending or ended.
\* And a failure of the accessor is surfaced as the single result of the
\* call: the call has exactly one result, and it is a failure result.
C29_NeverRetried ==
  \A id \in CallIds :
    /\ calls[id].state # "none" => Len(calls[id].requests) = 1
    /\ (Settled(id) /\ AccessorFailed(calls[id].out)) =>
         /\ Cardinality(ResultsOf(id)) = 1
         /\ calls[id].state = "returned"
         /\ calls[id].output.value.success = FALSE

(* ========================= claims: the guidance ======================== *)

\* call id of get_script_info has returned a script and its guidance
GuidanceReturned(id) ==
  /\ calls[id].tool = "get_script_info"
  /\ calls[id].state = "returned"
  /\ calls[id].output.value.success

\* the descriptor the accessor sent in answer to call id
Fetched(id) == calls[id].out.value

\* C30: the guidance returned by get_script_info is generated fresh on
\* every call from the descriptor fetched in that call alone. The script
\* returned is the descriptor just fetched; two calls that fetched equal
\* descriptors return equal guidance; and the guidance carries the prompt
\* of every stage of the descriptor just fetched, so that after an edit of
\* the catalog the next call's guidance is that of the new descriptor.
C30_GuidanceFresh ==
  \A i \in CallIds : GuidanceReturned(i) =>
    /\ calls[i].output.value.script = Fetched(i)
    /\ \A k \in 1..Len(Fetched(i).stages.items) :
         Contains(calls[i].output.value.guidance, Fetched(i).stages.items[k].prompt)
    /\ \A j \in CallIds : (GuidanceReturned(j) /\ Fetched(j) = Fetched(i)) =>
         calls[j].output.value.guidance = calls[i].output.value.guidance

\* C30 witness: of two calls for improv_game the first fetched the
\* descriptor before the edit and the second the one after it, and their
\* guidance differs
C30_Witness ==
  /\ GuidanceReturned(1) /\ GuidanceReturned(2)
  /\ Fetched(1) = ImprovGame /\ Fetched(2) = ImprovGameRevised
  /\ calls[1].output.value.guidance # calls[2].output.value.guidance
  /\ results[1].callId = 1

(* =================== claims: the shape of the guidance ================= *)

\* the lines of a text, in order, without their line ends
TextLines(text) ==
  LET nl == {j \in 1..Len(text) : SubSeq(text, j, j) = "\n"}
      n == Cardinality(nl)
      nth(k) == CHOOSE x \in nl : Cardinality({t \in nl : t < x}) = k - 1
      start(k) == IF k = 1 THEN 1 ELSE nth(k - 1) + 1
      stop(k) == IF k = n + 1 THEN Len(text) ELSE nth(k) - 1
  IN [k \in 1..(n + 1) |-> SubSeq(text, start(k), stop(k))]

\* a line that opens a stage: a number, a dot and the name in bold
IsStageLine(line) ==
  \E n \in 0..9 : StartsWith(line, ToString(n) \o ". **")

KeyQuestions == "   - Key questions: "
AvailableActions == "   - Available actions: "
OutputFormatNote == "### OUTPUT FORMAT: "
InteractiveNote == "### INTERACTIVE ELEMENTS: "

NonEmptyList(l) == l.present /\ Len(l.items) > 0

\* guidance text g has the shape the descriptor d asks for: the fixed
\* closing lines at its end, and before them the stages and the notes
GuidanceShape(d, g) ==
  LET closing == Len(ExecutionGuidelines)
      \* the text before the fixed closing lines
      L == TextLines(SubSeq(g, 1, Len(g) - closing))
      stages == d.stages.items
      H == {p \in 1..Len(L) : IsStageLine(L[p])}
      h(k) == CHOOSE p \in H : Cardinality({q \in H : q < p}) = k - 1
      \* the lines that belong to stage k: up to the next stage, or up to
      \* the empty line that ends the list of stages
      last(k) == IF k < Cardinality(H) THEN h(k + 1) - 1
                 ELSE (CHOOSE p \in h(k)..Len(L) :
                         L[p] = "" /\ \A q \in h(k)..(p - 1) : L[q] # "") - 1
      Under(k, prefix) == {p \in (h(k) + 1)..last(k) : StartsWith(L[p], prefix)}
      Notes(prefix) == {p \in 1..Len(L) : StartsWith(L[p], prefix)}
  IN
  /\ Len(g) >= closing
  /\ SubSeq(g, Len(g) - closing + 1, Len(g)) = ExecutionGuidelines
  /\ Cardinality(H) = Len(stages)
  /\ \A k \in 1..Len(stages) :
       /\ L[h(k)] = ToString(k) \o ". **" \o toUpperCase(stages[k].name) \o "**: "
                    \o stages[k].prompt
       /\ (Under(k, KeyQuestions) # {}) <=> NonEmptyList(stages[k].questions)
       /\ \A p \in Under(k, KeyQuestions) :
            L[p] = KeyQuestions \o join(stages[k].questions.items, ", ")
       /\ (Under(k, AvailableActions) # {}) <=> NonEmptyList(stages[k].actions)
       /\ \A p \in Under(k, AvailableActions) :
            L[p] = AvailableActions \o join(stages[k].actions.items, ", ")
       /\ Cardinality(Under(k, KeyQuestions)) <= 1
       /\ Cardinality(Under(k, AvailableActions)) <= 1
  /\ (Notes(OutputFormatNote) # {})
       <=> (d.output_format.present /\ d.output_format.s # "")
  /\ \A p \in Notes(OutputFormatNote) : L[p] = OutputFormatNote \o d.output_format.s
  /\ (Notes(InteractiveNote) # {}) <=> NonEmptyList(d.interactive_elements)
  /\ \A p \in Notes(InteractiveNote) :
       L[p] = InteractiveNote \o join(d.interactive_elements.items, ", ")

\* C31: the guidance block lists the stages of the descriptor in the
\* descriptor's order, the k-th numbered k from 1 with its name (in capitals)
\* and its prompt; under a stage the line of its questions stands exactly
\* when the list of its questions is there and not empty, and so for the
\* line of its actions; the note on the output format stands exactly when
\* the descriptor has a hint for it, and the note on the interactive
\* elements exactly when that list is there and not empty.
C31_GuidanceStructure ==
  \A i \in CallIds : GuidanceReturned(i) =>
    GuidanceShape(Fetched(i), calls[i].output.value.guidance)

\* C31 witness: guidance returned for the two-stage descriptor, whose first
\* stage has questions and no actions and whose second stage has an empty
\* list of questions and one action
C31_Witness ==
  \E i \in CallIds :
    /\ GuidanceReturned(i) /\ Fetched(i) = BlogWriter
    /\ Len(TextLines(calls[i].output.value.guidance)) > Len(BlogWriter.stages.items)

(* ================ claims: the descriptor is left as it is =============== *)

DescriptorFields == {"name", "description", "stages", "output_format", "interactive_elements"}

\* C32: the bridge never changes a script descriptor. The script field of a
\* successful get_script_info result is, field by field and stage by stage,
\* the descriptor the catalog accessor delivered in that call, although the
\* guidance built from it writes the stage names in capitals.
C32_DescriptorUntouched ==
  \A i \in CallIds : GuidanceReturned(i) =>
    LET script == calls[i].output.value.script IN
    /\ DOMAIN script = DescriptorFields
    /\ \A f \in DescriptorFields : script[f] = Fetched(i)[f]
    /\ Len(script.stages.items) = Len(Fetched(i).stages.items)
    /\ \A k \in 1..Len(script.stages.items) :
         script.stages.items[k] = Fetched(i).stages.items[k]

\* C32 witness: a script was returned whose first stage still has its name
\* in small letters while the guidance built from it shows it in capitals
C32_Witness ==
  \E i \in CallIds :
    /\ GuidanceReturned(i)
    /\ calls[i].output.value.script.stages.items[1].name = "intro"
    /\ Contains(calls[i].output.value.guidance, "**INTRO**")
    /\ ~Contains(calls[i].output.value.guidance, "**intro**")

(* ===================== claims: lifecycle logging ======================= *)

ControlEvents == {"start", "stop", "mark"}

\* the frame is JSON with an event field that names a control event
IsControlFrame(data) ==
  /\ JsonParse(data).ok
  /\ Get(JsonParse(data), "event") \in {Str(e) : e \in ControlEvents}

\* the values of the members of a frame other than event and streamSid
OtherValues(data) ==
  LET msg == JsonParse(data) IN
  {msg.members[i][2] : i \in {j \in 1..Len(msg.members) :
                                msg.members[j][1] \notin {"event", "streamSid"}}}

\* C33: lifecycle logging never includes audio. A frame is logged exactly
\* when it parses as JSON with an event field equal to start, stop or mark,
\* with one entry that holds the event name and the stream id and nothing
\* else of the frame; a frame of any other kind (audio, JSON without event,
\* another event) leaves the log as it was; and a close of the WebSocket
\* adds one entry that holds its code and its reason.
C33_LifecycleLogging ==
  [][/\ \A c \in ConnIds, data \in StreamFrames \cup LabelledFrames :
          OnMessage(c, data) =>
            IF IsControlFrame(data)
              THEN LET text == console'[Len(console')].text
                       sid == Get(JsonParse(data), "streamSid") IN
                   /\ Len(console') = Len(console) + 1
                   /\ SubSeq(console', 1, Len(console)) = console
                   /\ \E e \in ControlEvents :
                        /\ Get(JsonParse(data), "event") = Str(e)
                        /\ text \in {"[twilio] event=" \o e,
                                     "[twilio] event=" \o e \o " streamSid=" \o sid.s}
                   /\ \A v \in OtherValues(data) : ~Contains(text, v)
              ELSE console' = console
     /\ \A c \in ConnIds, code \in CloseCodes, reason \in CloseReasons :
          OnClose(c, code, reason) =>
            /\ Len(console') = Len(console) + 1
            /\ SubSeq(console', 1, Len(console)) = console
            /\ Contains(console'[Len(console')].text, "code=" \o ToString(code))
            /\ Contains(console'[Len(console')].text,
                        "reason=\"" \o ReasonText(reason) \o "\"")]_vars

\* C33 witness: a mark event with a name and then a media event with audio
\* were received, the socket was closed, and the log holds the mark and the
\* close and nothing of the media event
C33_Witness ==
  /\ Len(delivered[1]) = 2
  /\ Get(JsonParse(delivered[1][1]), "name") = Str("greeting")
  /\ Get(JsonParse(delivered[1][2]), "payload") = Str("UklGRg")
  /\ conn[1].ws = "closed"
  /\ console = <<LogLine("[twilio] event=mark streamSid=MZ1"),
                 LogLine("[twilio] WebSocket closed code=1006 reason=\"hangup\"")>>

(* ================== claims: the webhook's signature ==================== *)

\* the entries of a form body in ascending order of their keys, as a text
SortedText(params) ==
  LET n == Len(params)
      order == CHOOSE f \in [1..n -> 1..n] :
                 /\ \A i, j \in 1..n : i # j => f[i] # f[j]
                 /\ \A i \in 1..(n - 1) : Less(params[f[i]][1], params[f[i + 1]][1])
  IN EntriesText([k \in 1..n |-> params[order[k]]])

\* the signature a sender that knows the secret puts on a request with the
\* given form body to this gateway's webhook
GenuineSignature(params) ==
  Str(HmacSha1Base64(TWILIO_AUTH_TOKEN.s, PUBLIC_URL \o "/twilio/voice" \o SortedText(params)))

Validated(v) == validations[v].pc = "done"

\* C34: with a shared secret configured the validation decides every
\* request. Whatever the signature header (absent, empty, of any length),
\* validateTwilioRequest returns, and what it returns is accept exactly when
\* the header is the HMAC made with the secret over the public callback URL
\* and the sorted form parameters; it never raises.
C34_ValidationDecides ==
  \A v \in ValidationIds : (Validated(v) /\ Truthy(TWILIO_AUTH_TOKEN)) =>
    /\ validations[v].result.kind = "return"
    /\ validations[v].result.value
         = (validations[v].signature = GenuineSignature(validations[v].params))

\* whenever validateTwilioRequest returns under a configured secret, it
\* accepts exactly the genuine signature
DecidesWhenItReturns ==
  \A v \in ValidationIds :
    (Validated(v) /\ Truthy(TWILIO_AUTH_TOKEN) /\ validations[v].result.kind = "return") =>
      validations[v].result.value
        = (validations[v].signature = GenuineSignature(validations[v].params))

\* a request sent with its parameters out of order and signed by a sender
\* that knows the secret has been accepted
GenuineAccepted ==
  \E v \in ValidationIds :
    /\ Validated(v) /\ Truthy(TWILIO_AUTH_TOKEN)
    /\ Len(validations[v].params) = 2
    /\ validations[v].result = Return(TRUE)

\* a signature of the right length made over another URL has been rejected
ForgedRejected ==
  \E v \in ValidationIds :
    /\ Validated(v) /\ Truthy(TWILIO_AUTH_TOKEN)
    /\ validations[v].result = Return(FALSE)

\* C35: the telephony webhook never rejects a request on signature grounds.
\* The answer to POST /twilio/voice is the TwiML document of the public URL,
\* whatever the signature header and whatever the shared secret; answering
\* does not apply validateTwilioRequest; and with no secret configured
\* validateTwilioRequest accepts every request.
C35_WebhookNeverRejects ==
  [][/\ \A w \in VoiceReqIds : voiceReq'[w].pc = "done" =>
          voiceReq'[w].responses = <<ResXml(twiml(PUBLIC_URL))>>
     /\ \A w \in VoiceReqIds, signature \in SignatureHeaders :
          TwilioVoice(w, signature) => validations' = validations
     /\ \A v \in ValidationIds :
          (validations'[v].pc = "done" /\ ~Truthy(TWILIO_AUTH_TOKEN)) =>
            validations'[v].result = Return(TRUE)]_vars

\* C35 witness: with the secret configured a request without a signature
\* header was answered with the TwiML document, although the validation of
\* a request without a signature did not accept it
C35_Witness ==
  /\ Truthy(TWILIO_AUTH_TOKEN)
  /\ voiceReq[1].pc = "done" /\ voiceReq[1].signature = Undefined
  /\ IsTwiml(voiceReq[1].responses[1])
  /\ \E v \in ValidationIds :
       /\ Validated(v) /\ validations[v].signature = Undefined
       /\ validations[v].result # Return(TRUE)

(* ==================== claims: the registry's growth ==================== *)

SdpPath(r) ==
  CASE ~SdpDone(r) -> "running"
    [] ~Truthy(sdpReq[r].sdp) -> "missing offer"
    [] sdpReq[r].fetches = <<>> -> "missing credential"
    [] sdpReq[r].threw -> "upstream raised"
    [] Ok(sdpReq[r].rtResp) -> "upstream success"
    [] OTHER -> "upstream failure status"

\* C37: every request to POST /realtime/sdp gets exactly one response on
\* every path through the handler. A handler that has run to its end
\* (missing offer, missing credential, upstream success, upstream status
\* that is no success, upstream call raising) has sent one response; a
\* handler still waiting has sent none; and once a response is sent nothing
\* more happens for the request, so no second response follows.
C37_OneResponsePerRequest ==
  [][\A r \in SdpReqIds :
       /\ Len(sdpReq'[r].responses) <= 1
       /\ SdpDone(r)' <=> Len(sdpReq'[r].responses) = 1
       /\ sdpReq[r].responses # <<>> => sdpReq'[r] = sdpReq[r]]_vars

\* C37 witness: a request that the upstream refused with 401 and a request
\* whose upstream body could not be read have one response each
C37_Witness ==
  \E r, q \in SdpReqIds :
    /\ SdpPath(r) = "upstream failure status" /\ sdpReq[r].rtResp.status = 401
    /\ Len(sdpReq[r].responses) = 1
    /\ SdpPath(q) = "upstream raised" /\ sdpReq[q].rtResp # NoResp
    /\ Len(sdpReq[q].responses) = 1

\* C38: the relay contacts the upstream endpoint at most once per request,
\* and only for a request with a non-empty offer while the credential is
\* set; the offer is checked first, so a request without an offer that
\* arrives while the credential is missing is answered 400 and not 500.
C38_UpstreamAtMostOnce ==
  \A r \in SdpReqIds :
    /\ Len(sdpReq[r].fetches) <= 1
    /\ sdpReq[r].fetches # <<>> =>
         /\ sdpReq[r].fetches[1].body # ""
         /\ Truthy(sdpReq[r].sdp)
         /\ OPENAI_API_KEY # ""
    /\ (sdpReq[r].pc # "new" /\ ~Truthy(sdpReq[r].sdp) /\ OPENAI_API_KEY = "") =>
         /\ sdpReq[r].responses = <<ResJson(400, "Missing SDP")>>
         /\ \A i \in 1..Len(sdpReq[r].responses) : sdpReq[r].responses[i].status # 500

\* C38 witness: with the credential missing, a request without an offer was
\* answered 400 and a request with an offer was answered 500, the upstream
\* contacted for neither
C38_Witness ==
  /\ OPENAI_API_KEY = ""
  /\ \E r, q \in SdpReqIds :
       /\ SdpPath(r) = "missing offer" /\ sdpReq[r].responses[1].status = 400
       /\ SdpPath(q) = "missing credential" /\ sdpReq[q].responses[1].status = 500
       /\ sdpReq[r].fetches = <<>> /\ sdpReq[q].fetches = <<>>

\* with the credential set, requests were sent upstream, each once
UpstreamContactedOnce ==
  /\ OPENAI_API_KEY # ""
  /\ \A r \in SdpReqIds : SdpDone(r) /\ Len(sdpReq[r].fetches) = 1

\* the upstream call of request r raised: fetch rejected, or the body of the
\* response could not be read
UpstreamRaised(r) == SdpDone(r) /\ sdpReq[r].threw

\* C39: when the upstream signaling call raises instead of returning a
\* response (a network failure, or a body that cannot be read), the relay
\* answers status 500 with the fixed body 'SDP proxy error' and nothing of
\* the exception or of the upstream's response; and the gateway goes on
\* serving: it still listens, and a request not yet received can be handled.
C39_UpstreamRaiseAnswered500 ==
  \A r \in SdpReqIds : UpstreamRaised(r) =>
    /\ Len(sdpReq[r].responses) = 1
    /\ sdpReq[r].responses[1].status = 500
    /\ sdpReq[r].responses[1].ctype = "application/json"
    /\ sdpReq[r].responses[1].body = "{\"error\":\"SDP proxy error\"}"
    /\ listening
    /\ \A q \in SdpReqIds : sdpReq[q].pc = "new" =>
         ENABLED (\E v \in SdpFieldValues : SdpPost(q, v))
    /\ \A q \in SdpReqIds : sdpReq[q].pc \in {"awaitFetch", "awaitText"} =>
         ENABLED (SdpFetchResolves(q, 200, "v=0 answer") \/ SdpTextResolves(q))

\* C39 witness: the call of the first request raised before any response
\* came, it was answered 500, and the second request has been relayed
C39_Witness ==
  /\ UpstreamRaised(1) /\ sdpReq[1].rtResp = NoResp
  /\ sdpReq[1].responses[1].status = 500
  /\ SdpPath(2) = "upstream success"
  /\ sdpReq[2].responses[1].status = 200

(* ================= claims: the script handlers are total =============== *)

ScriptTools == {"get_script_info", "list_available_scripts"}

\* the handler of call id has run to its end
Ended(id) == calls[id].state \in {"returned", "threw"}

\* the kind of answer the accessor gave to call id
OutcomeKind(id) ==
  LET out == calls[id].out IN
  CASE out.kind = "network" -> "network exception"
    [] ~Ok(out) /\ out.json -> "error status, JSON body"
    [] ~Ok(out) -> "error status, other body"
    [] ~out.json -> "success status, unparsable body"
    [] OTHER -> "success"

\* C40: the handlers get_script_info and list_available_scripts are total.
\* Whatever the ScriptCatalog accessor does (success, a status that is no
\* success with a JSON or another error body, a success status with an
\* unparsable body, a network exception), the handler returns and does not
\* raise; what it returns has a boolean success field, with the data
\* (script and guidance, or scripts) when success is true, and with an
\* error message when it is false; and it is false for every outcome of
\* the accessor other than success.
C40_ScriptHandlersTotal ==
  \A id \in CallIds : (Ended(id) /\ calls[id].tool \in ScriptTools) =>
    LET value == calls[id].output.value IN
    /\ calls[id].state = "returned"
    /\ calls[id].output.kind = "return"
    /\ "success" \in DOMAIN value /\ value.success \in BOOLEAN
    /\ value.success =>
         DOMAIN value = (IF calls[id].tool = "get_script_info"
                           THEN {"success", "script", "guidance"}
                           ELSE {"success", "scripts"})
    /\ ~value.success =>
         /\ DOMAIN value = {"success", "error"}
         /\ value.error # ""
    /\ OutcomeKind(id) # "success" => ~value.success
    /\ \E i \in 1..Len(results) : results[i] = [callId |-> id, value |-> value]

\* C40 witness: list_available_scripts got a success status with a body
\* that does not parse, get_script_info got an error status with a body
\* that is no JSON, and both returned a failure result
C40_Witness ==
  \E i, j \in CallIds :
    /\ calls[i].tool = "list_available_scripts" /\ calls[i].state = "returned"
    /\ OutcomeKind(i) = "success status, unparsable body"
    /\ ~calls[i].output.value.success
    /\ calls[j].tool = "get_script_info" /\ calls[j].state = "returned"
    /\ OutcomeKind(j) = "error status, other body"
    /\ ~calls[j].output.value.success
====
